---- MODULE Spec2Model ----
(***************************************************************************)
(* Chaupar backend: zone classification, path distance, move validation,   *)
(* move narration and the state diff, modelled from the JavaScript source. *)
(*                                                                         *)
(* A board coordinate such as "K1" is the pair <<column, row>>; only       *)
(* calculateManhattanDistance looks inside a coordinate.  An optional      *)
(* value (null / undefined in the source) is a sequence of length 0 or 1.  *)
(***************************************************************************)
EXTENDS Integers, Sequences, FiniteSets

VARIABLES
    pc,               \* position of the running call
    movement,         \* validateMove / analyzePieceMovement argument
    diceRolls,        \* dice argument: <<>> or <<[dice1, dice2]>>
    actualSteps,      \* result of calculateGamePathDistance
    validation,       \* result of validateMove
    description,      \* result of analyzePieceMovement
    db,               \* saved_games.new_game_state of the game record
    clientState,      \* snapshot the client is about to send
    edits,            \* number of client edits since the last stored state
    gameState,        \* updateGameState argument
    previousState,    \* value fetched by getPreviousGameState
    differences,      \* result of compareGameStates (gameStateManager)
    differencesGD,    \* result of compareGameStates (gameData)
    validationResult, \* result of validateAllMoves
    moveReport,       \* result of generateMoveReport
    result,           \* value returned by updateGameState
    request,          \* kinds of the arguments of the updateGameState call
    moveReportGD,     \* result of generateMoveReport (gameData)
    resultGD          \* value returned by updateGameState (gameData)

vars == <<pc, movement, diceRolls, actualSteps, validation, description,
          db, clientState, edits, gameState, previousState, differences,
          differencesGD, validationResult, moveReport, result, request,
          moveReportGD, resultGD>>

moveVars == <<movement, diceRolls, actualSteps, validation, description>>
callVars == <<db, clientState, edits, gameState, previousState, differences,
              differencesGD, validationResult, moveReport, result, request,
              moveReportGD, resultGD>>

(***************************************************************************)
(* Board topology (gameZones.json): a two-player board in the documented   *)
(* shape.  Each player walks six cells of an eight-cell ring and then two  *)
(* home cells.                                                             *)
(***************************************************************************)
A1 == <<1, 1>>
A2 == <<1, 2>>
A7 == <<1, 7>>
B2 == <<2, 2>>
B3 == <<2, 3>>
C3 == <<3, 3>>
C4 == <<3, 4>>
C5 == <<3, 5>>
D1 == <<4, 1>>
D2 == <<4, 2>>
D3 == <<4, 3>>
D4 == <<4, 4>>
D5 == <<4, 5>>
D6 == <<4, 6>>
D7 == <<4, 7>>
E3 == <<5, 3>>
E4 == <<5, 4>>
E5 == <<5, 5>>
F3 == <<6, 3>>
F5 == <<6, 5>>
F6 == <<6, 6>>
G1 == <<7, 1>>
G4 == <<7, 4>>
G6 == <<7, 6>>
G7 == <<7, 7>>

Cells ==
    {A1, A2, A7, B2, B3, C3, C4, C5, D1, D2, D3, D4, D5, D6, D7,
     E3, E4, E5, F3, F5, F6, G1, G4, G6, G7}

gameZones ==
    [ playerPaths |->
        [p \in {1, 2} |->
            IF p = 1 THEN <<C3, D3, E3, E4, E5, D5, D6, D7>>
                     ELSE <<E5, D5, C5, C4, C3, D3, D2, D1>>],
      waitingZones |->
        [p \in {1, 2} |-> IF p = 1 THEN <<A1, A2>> ELSE <<G7, G6>>],
      startingPositions |->
        [p \in {1, 2} |-> IF p = 1 THEN <<B3, B2>> ELSE <<F5, F6>>],
      homeZones |->
        [p \in {1, 2} |-> IF p = 1 THEN <<D6, D7>> ELSE <<D2, D1>>],
      movementStart |->
        [p \in {1, 2} |-> IF p = 1 THEN C3 ELSE E5],
      teleportZones |->
        [p \in {1, 2} |-> IF p = 1 THEN E4 ELSE F3],
      prison |-> << [trigger |-> E3, teleportTo |-> G1],
                    [trigger |-> C5, teleportTo |-> A7] >>,
      temple |-> << [trigger |-> D3, teleportTo |-> D4] >> ]

\* Player numbers a movement can carry; 3 has no entry in gameZones.
Players == {1, 2, 3}

Dice == 1..6

(***************************************************************************)
(* Array helpers                                                           *)
(***************************************************************************)
Range(s) == {s[i] : i \in 1..Len(s)}

\* Array.prototype.indexOf: 0-based index of the first occurrence, or -1.
indexOf(s, x) ==
    IF x \in Range(s)
    THEN (CHOOSE i \in 1..Len(s) : s[i] = x /\ \A j \in 1..(i - 1) : s[j] # x) - 1
    ELSE -1

Abs(n) == IF n < 0 THEN -n ELSE n

\* The concatenation of a sequence of sequences, in order.
RECURSIVE Flatten(_)
Flatten(ss) == IF ss = <<>> THEN <<>> ELSE Head(ss) \o Flatten(Tail(ss))


(***************************************************************************)
(* zoneDetector.js                                                         *)
(***************************************************************************)
Zone(t, z) == [type |-> t, zone |-> z]

prisonCells == {gameZones.prison[i].teleportTo : i \in 1..Len(gameZones.prison)}

templeCells == {gameZones.temple[i].teleportTo : i \in 1..Len(gameZones.temple)}

\* Variant: the player's teleport cell is not looked at.
getZoneType_NoTeleport(position, player) ==
    IF player \in DOMAIN gameZones.waitingZones
          /\ position \in Range(gameZones.waitingZones[player])
    THEN Zone("waiting", "waitingZone")
    ELSE IF player \in DOMAIN gameZones.startingPositions
          /\ position \in Range(gameZones.startingPositions[player])
    THEN Zone("starting", "startingPosition")
    ELSE IF player \in DOMAIN gameZones.homeZones
          /\ position \in Range(gameZones.homeZones[player])
    THEN Zone("home", "homeZone")
    ELSE IF position \in prisonCells
    THEN Zone("prison", "prison")
    ELSE IF position \in templeCells
    THEN Zone("temple", "temple")
    ELSE IF player \in DOMAIN gameZones.movementStart
          /\ position = gameZones.movementStart[player]
    THEN Zone("movementStart", "movementStart")
    ELSE Zone("field", "gameField")

getZoneType(position, player) ==
    IF player \in DOMAIN gameZones.waitingZones
          /\ position \in Range(gameZones.waitingZones[player])
    THEN Zone("waiting", "waitingZone")
    ELSE IF player \in DOMAIN gameZones.startingPositions
          /\ position \in Range(gameZones.startingPositions[player])
    THEN Zone("starting", "startingPosition")
    ELSE IF player \in DOMAIN gameZones.homeZones
          /\ position \in Range(gameZones.homeZones[player])
    THEN Zone("home", "homeZone")
    ELSE IF position \in prisonCells
    THEN Zone("prison", "prison")
    ELSE IF position \in templeCells
    THEN Zone("temple", "temple")
    ELSE IF player \in DOMAIN gameZones.movementStart
          /\ position = gameZones.movementStart[player]
    THEN Zone("movementStart", "movementStart")
    ELSE IF player \in DOMAIN gameZones.teleportZones
          /\ position = gameZones.teleportZones[player]
    THEN Zone("teleport", "teleport")
    ELSE Zone("field", "gameField")

isWaitingZoneExit(from, to, player) ==
    getZoneType(from, player).type = "waiting"
        /\ getZoneType(to, player).type # "waiting"

isPrisonExit(from, to, player) == getZoneType(from, player).type = "prison"

isTeleportMove(from, to, player) == getZoneType(from, player).type = "teleport"

\* The player's teleport position, or <<>> for null.
getPlayerTeleport(player) ==
    IF player \in DOMAIN gameZones.teleportZones
    THEN <<gameZones.teleportZones[player]>>
    ELSE <<>>

\* First entry of the table whose teleportTo is the position, as <<entry>>, or <<>>.
FindTarget(table, position) ==
    IF \E i \in 1..Len(table) : table[i].teleportTo = position
    THEN LET i == CHOOSE k \in 1..Len(table) :
                      /\ table[k].teleportTo = position
                      /\ \A j \in 1..(k - 1) : table[j].teleportTo # position
         IN  <<table[i]>>
    ELSE <<>>

\* The prison entry when there is one, else the temple entry, else null.
TriggerOf(inPrison, inTemple) ==
    IF inPrison # <<>> THEN <<[type |-> "prison", trigger |-> inPrison[1].trigger]>>
    ELSE IF inTemple # <<>>
    THEN <<[type |-> "temple", trigger |-> inTemple[1].trigger]>>
    ELSE <<>>

\* Variant: only the prison table is searched.
getTriggerCell_PrisonOnly(targetPosition) ==
    TriggerOf(FindTarget(gameZones.prison, targetPosition), <<>>)

\* { type, trigger, target: targetPosition } or null
getTriggerCell(targetPosition) ==
    TriggerOf(FindTarget(gameZones.prison, targetPosition),
              FindTarget(gameZones.temple, targetPosition))

\* { type, trigger, source: currentPosition } or null
getSourceTriggerCell(currentPosition) ==
    TriggerOf(FindTarget(gameZones.prison, currentPosition),
              FindTarget(gameZones.temple, currentPosition))

\* Variant: a capture only from a field cell.
isPieceCaptured_FromFieldOnly(m) ==
    getZoneType(m.to, m.player).type = "waiting"
        /\ getZoneType(m.from, m.player).type = "field"

isPieceCaptured(m) ==
    getZoneType(m.to, m.player).type = "waiting"
        /\ getZoneType(m.from, m.player).type # "waiting"

(***************************************************************************)
(* distanceCalculator.js                                                   *)
(***************************************************************************)
calculateManhattanDistance(from, to) ==
    Abs(from[1] - to[1]) + Abs(from[2] - to[2])

\* indexOf(trigger) of a found trigger entry, else the index left as it was.
TriggerIndex(playerPath, found, index0) ==
    IF found # <<>> THEN indexOf(playerPath, found[1].trigger) ELSE index0

\* Variant: a prison or temple origin counts from the cell after its trigger.
FromIndex_AfterTrigger(playerPath, from, fromType, fromIndex0) ==
    IF fromIndex0 # -1 THEN fromIndex0
    ELSE IF fromType = "waiting" THEN -2
    ELSE IF fromType = "starting" THEN -1
    ELSE IF fromType \in {"prison", "temple"}
    THEN TriggerIndex(playerPath, getSourceTriggerCell(from), fromIndex0) + 1
    ELSE fromIndex0

\* Variant: a waiting origin counts like a starting origin.
FromIndex_WaitingAsStarting(playerPath, from, fromType, fromIndex0) ==
    IF fromIndex0 # -1 THEN fromIndex0
    ELSE IF fromType = "waiting" THEN -1
    ELSE IF fromType = "starting" THEN -1
    ELSE IF fromType \in {"prison", "temple"}
    THEN TriggerIndex(playerPath, getSourceTriggerCell(from), fromIndex0)
    ELSE fromIndex0

\* fromIndex after the block `if (fromIndex === -1)`, for the cases that do
\* not return from it.
FromIndex(playerPath, from, fromType, fromIndex0) ==
    IF fromIndex0 # -1 THEN fromIndex0
    ELSE IF fromType = "waiting" THEN -2
    ELSE IF fromType = "starting" THEN -1
    ELSE IF fromType \in {"prison", "temple"}
    THEN TriggerIndex(playerPath, getSourceTriggerCell(from), fromIndex0)
    ELSE fromIndex0

\* toIndex after the block `if (toIndex === -1)`.
ToIndex(playerPath, to, toType, toIndex0) ==
    IF toIndex0 # -1 THEN toIndex0
    ELSE IF toType \in {"prison", "temple"}
    THEN TriggerIndex(playerPath, getTriggerCell(to), toIndex0)
    ELSE IF toType = "home" THEN indexOf(playerPath, to)
    ELSE toIndex0

\* The fallback test and the final distance.
\* Variant: the signed index difference.
FinalDistance_Signed(from, to, fromType, fromIndex, toIndex) ==
    IF \/ fromIndex < -2
       \/ (fromIndex = -1 /\ fromType = "field")
       \/ toIndex = -1
    THEN calculateManhattanDistance(from, to)
    ELSE IF fromIndex = -2 THEN 2 + toIndex
    ELSE IF fromIndex = -1 THEN 1 + toIndex
    ELSE toIndex - fromIndex

FinalDistance(from, to, fromType, fromIndex, toIndex) ==
    IF \/ fromIndex < -2
       \/ (fromIndex = -1 /\ fromType = "field")
       \/ toIndex = -1
    THEN calculateManhattanDistance(from, to)
    ELSE IF fromIndex = -2 THEN 2 + toIndex
    ELSE IF fromIndex = -1 THEN 1 + toIndex
    ELSE Abs(toIndex - fromIndex)

\* The body of calculateGamePathDistance for a player with a path.
\* Variant: without the early return for leaving the waiting zone.
PathDistance_NoWaitingStep(playerPath, from, to, fromType, toType, fromIndex0) ==
    IF fromIndex0 = -1 /\ fromType = "starting" /\ toType = "starting" THEN 0
    ELSE FinalDistance(from, to, fromType,
                       FromIndex(playerPath, from, fromType, fromIndex0),
                       ToIndex(playerPath, to, toType, indexOf(playerPath, to)))

PathDistance(playerPath, from, to, fromType, toType, fromIndex0) ==
    IF fromIndex0 = -1 /\ fromType = "waiting" /\ toType = "starting" THEN 1
    ELSE IF fromIndex0 = -1 /\ fromType = "starting" /\ toType = "starting" THEN 0
    ELSE FinalDistance(from, to, fromType,
                       FromIndex(playerPath, from, fromType, fromIndex0),
                       ToIndex(playerPath, to, toType, indexOf(playerPath, to)))

calculateGamePathDistance(from, to, player) ==
    IF player \notin DOMAIN gameZones.playerPaths
    THEN calculateManhattanDistance(from, to)
    ELSE PathDistance(gameZones.playerPaths[player], from, to,
                      getZoneType(from, player).type, getZoneType(to, player).type,
                      indexOf(gameZones.playerPaths[player], from))

\* Variant: the sum of the dice is not accepted.
validateDistanceWithDice_NoSum(steps, dice1, dice2) ==
    steps \in {dice1, dice2}

validateDistanceWithDice(steps, dice1, dice2) ==
    steps \in {dice1, dice2, dice1 + dice2}


(***************************************************************************)
(* Messages.  A validation message is the record of what its text names:   *)
(* the rule, the piece label, the dice values printed and further values.  *)
(***************************************************************************)
NumStr == <<"1", "2", "3", "4">>

\* `${pieceId || (piece + 1)}`: the id, or the 1-based index when the id is empty.
PieceLabel(m) == IF m.pieceId # "" THEN m.pieceId ELSE NumStr[m.piece + 1]

Msg(rule, m, dice, info) ==
    [rule |-> rule, piece |-> PieceLabel(m), dice |-> dice, info |-> info]

Valid == [isValid |-> TRUE, errorMessage |-> <<>>]

Invalid(msg) == [isValid |-> FALSE, errorMessage |-> <<msg>>]

(***************************************************************************)
(* moveValidator.js                                                        *)
(***************************************************************************)
validateMoveDistance(m, rolls) ==
    IF Len(rolls) = 0 THEN Valid
    ELSE
    LET dice1 == rolls[1].dice1
        dice2 == rolls[1].dice2
        steps == calculateGamePathDistance(m.from, m.to, m.player)
    IN  IF ~validateDistanceWithDice(steps, dice1, dice2)
        THEN Invalid(Msg("distance", m, <<dice1, dice2, dice1 + dice2>>, <<steps>>))
        ELSE Valid

\* Variant: only the first die is tested for 1.
validateWaitingZoneExit_FirstDie(m, rolls) ==
    IF ~isWaitingZoneExit(m.from, m.to, m.player) THEN Valid
    ELSE IF Len(rolls) = 0 THEN Invalid(Msg("waitingNoDice", m, <<>>, <<>>))
    ELSE
    LET dice1 == rolls[1].dice1
        dice2 == rolls[1].dice2
        hasOne == dice1 = 1
    IN  IF ~hasOne
        THEN Invalid(Msg("waitingNoOne", m, <<dice1, dice2>>, <<>>))
        ELSE Valid

validateWaitingZoneExit(m, rolls) ==
    IF ~isWaitingZoneExit(m.from, m.to, m.player) THEN Valid
    ELSE IF Len(rolls) = 0 THEN Invalid(Msg("waitingNoDice", m, <<>>, <<>>))
    ELSE
    LET dice1 == rolls[1].dice1
        dice2 == rolls[1].dice2
        hasOne == dice1 = 1 \/ dice2 = 1
    IN  IF ~hasOne
        THEN Invalid(Msg("waitingNoOne", m, <<dice1, dice2>>, <<>>))
        ELSE Valid

\* Variant: a sum of at least 6 counts as a six.
validatePrisonExit_SumSix(m, rolls) ==
    IF ~isPrisonExit(m.from, m.to, m.player) THEN Valid
    ELSE IF Len(rolls) = 0 THEN Invalid(Msg("prisonNoDice", m, <<>>, <<>>))
    ELSE
    LET dice1 == rolls[1].dice1
        dice2 == rolls[1].dice2
        hasSix == dice1 + dice2 >= 6
    IN  IF ~hasSix
        THEN Invalid(Msg("prisonNoSix", m, <<dice1, dice2>>, <<>>))
        ELSE Valid

validatePrisonExit(m, rolls) ==
    IF ~isPrisonExit(m.from, m.to, m.player) THEN Valid
    ELSE IF Len(rolls) = 0 THEN Invalid(Msg("prisonNoDice", m, <<>>, <<>>))
    ELSE
    LET dice1 == rolls[1].dice1
        dice2 == rolls[1].dice2
        hasSix == dice1 = 6 \/ dice2 = 6
    IN  IF ~hasSix
        THEN Invalid(Msg("prisonNoSix", m, <<dice1, dice2>>, <<>>))
        ELSE Valid

validateTeleportUsage(m, rolls) ==
    IF ~isTeleportMove(m.from, m.to, m.player) THEN Valid
    ELSE
    LET playerTeleport == getPlayerTeleport(m.player)
    IN  IF playerTeleport = <<>> \/ m.from # playerTeleport[1]
        THEN Invalid(Msg("teleport", m, <<>>, <<m.player, m.from, playerTeleport>>))
        ELSE Valid

\* validations.filter(r => !r.isValid).map(r => r.errorMessage)
ErrorsOf(validations) ==
    Flatten([i \in 1..Len(validations) |->
                IF validations[i].isValid THEN <<>>
                ELSE validations[i].errorMessage])

\* Variant: the rules are tried in order and the first violation ends the
\* validation of the movement.
validateMove_FirstViolationOnly(m, rolls) ==
    IF isPieceCaptured(m) THEN [isValid |-> TRUE, errorMessages |-> <<>>]
    ELSE
    LET validations == << validateMoveDistance(m, rolls),
                          validateWaitingZoneExit(m, rolls),
                          validatePrisonExit(m, rolls),
                          validateTeleportUsage(m, rolls) >>
        errors == ErrorsOf(validations)
    IN  [isValid |-> Len(errors) = 0,
         errorMessages |-> IF Len(errors) > 1 THEN <<errors[1]>> ELSE errors]

validateMove(m, rolls) ==
    IF isPieceCaptured(m) THEN [isValid |-> TRUE, errorMessages |-> <<>>]
    ELSE
    LET validations == << validateMoveDistance(m, rolls),
                          validateWaitingZoneExit(m, rolls),
                          validatePrisonExit(m, rolls),
                          validateTeleportUsage(m, rolls) >>
        errors == ErrorsOf(validations)
    IN  [isValid |-> Len(errors) = 0, errorMessages |-> errors]

\* The loop of validateAllMoves: allErrors.push(...result.errorMessages)
validateAllErrors(movements, rolls) ==
    Flatten([i \in 1..Len(movements) |->
                LET r == validateMove(movements[i], rolls)
                IN  IF ~r.isValid THEN r.errorMessages ELSE <<>>])

validateAllMoves(movements, rolls) ==
    LET allErrors == validateAllErrors(movements, rolls)
    IN  [isValid |-> Len(allErrors) = 0, errorMessages |-> allErrors]


(***************************************************************************)
(* moveAnalyzer.js                                                         *)
(*                                                                         *)
(* A snapshot is [currentPlayer, piecesData, lastDiceRoll, diceLog,        *)
(* gamePhase, playersOrder]; piecesData is <<>> or <<f>> with f a function *)
(* from player keys to piece lists, a piece being [id, position].          *)
(***************************************************************************)
AllPositions(state) ==
    IF state.piecesData = <<>> THEN {}
    ELSE LET pd == state.piecesData[1]
         IN  UNION {{pd[k][i].position : i \in 1..Len(pd[k])} : k \in DOMAIN pd}

\* Array.prototype.slice(start): the elements from 0-based index start on.
slice(s, start) == SubSeq(s, start + 1, Len(s))

areSubsequentHomeCellsOccupied(state, player, currentPosition) ==
    IF state.piecesData = <<>> THEN FALSE
    ELSE IF player \notin DOMAIN gameZones.homeZones THEN FALSE
    ELSE
    LET coordinates  == gameZones.homeZones[player]
        currentIndex == indexOf(coordinates, currentPosition)
        subsequentCells == slice(coordinates, currentIndex + 1)
    IN  IF currentIndex = -1 THEN FALSE
        ELSE Len(subsequentCells) > 0
                /\ \A i \in 1..Len(subsequentCells) :
                       subsequentCells[i] \in AllPositions(state)

\* distance === 1 ? 'ход' : distance < 5 ? 'хода' : 'ходов'
StepWord(distance) ==
    IF distance = 1 THEN "step1" ELSE IF distance < 5 THEN "step2to4" ELSE "step5up"

\* A movement description: the sentence chosen, the piece label, the cells the
\* sentence prints and the step count with its word (<<>> when it prints none).
Desc(kind, m, cells, steps) ==
    [kind |-> kind, piece |-> PieceLabel(m), cells |-> cells, steps |-> steps,
     word |-> IF steps = <<>> THEN <<>> ELSE <<StepWord(steps[1])>>]

analyzePieceMovement(m, state, rolls) ==
    LET from == m.from
        to   == m.to
        player   == m.player
        fromZone == getZoneType(from, player)
        toZone   == getZoneType(to, player)
        direct   == calculateGamePathDistance(from, to, player)
        diceSum  == IF Len(rolls) > 0 THEN rolls[1].dice1 + rolls[1].dice2 ELSE 0
        sourceTrigger == getSourceTriggerCell(from)
        triggerData   == getTriggerCell(to)
    IN  IF fromZone.type = "waiting" /\ toZone.type = "starting"
        THEN Desc("leftWaiting", m, <<>>, <<>>)
        ELSE IF fromZone.type = "starting" /\ toZone.type # "starting"
        THEN Desc("leftStarting", m, <<>>, <<direct>>)
        ELSE IF fromZone.type = "prison"
        THEN IF sourceTrigger # <<>> /\ diceSum >= 6
             THEN IF diceSum - 6 > 0
                  THEN Desc("leftPrisonOnSixMoved", m, <<sourceTrigger[1].trigger, to>>,
                            <<calculateGamePathDistance(sourceTrigger[1].trigger, to, player)>>)
                  ELSE Desc("leftPrisonOnSix", m, <<>>, <<>>)
             ELSE Desc("leftPrison", m, <<>>, <<>>)
        ELSE IF fromZone.type = "temple"
        THEN IF sourceTrigger # <<>>
             THEN Desc("leftTempleMoved", m, <<sourceTrigger[1].trigger, to>>,
                       <<calculateGamePathDistance(sourceTrigger[1].trigger, to, player)>>)
             ELSE Desc("leftTemple", m, <<to>>, <<direct>>)
        ELSE IF toZone.type = "prison"
        THEN IF triggerData # <<>>
             THEN Desc("movedToPrison", m, <<from, to>>,
                       <<calculateGamePathDistance(from, triggerData[1].trigger, player)>>)
             ELSE Desc("fellIntoPrison", m, <<to>>, <<direct>>)
        ELSE IF toZone.type = "temple"
        THEN IF triggerData # <<>>
             THEN Desc("movedToTemple", m, <<from, to>>,
                       <<calculateGamePathDistance(from, triggerData[1].trigger, player)>>)
             ELSE Desc("fellIntoTemple", m, <<to>>, <<direct>>)
        ELSE IF toZone.type = "home"
        THEN IF areSubsequentHomeCellsOccupied(state, player, to)
             THEN Desc("settledInHome", m, <<>>, <<>>)
             ELSE Desc("hiddenInHome", m, <<>>, <<>>)
        ELSE IF fromZone.type = "waiting"
        THEN Desc("movedFromWaiting", m, <<from, to>>, <<direct>>)
        ELSE IF fromZone.type = "starting"
        THEN Desc("movedFromStarting", m, <<from, to>>, <<direct>>)
        ELSE Desc("moved", m, <<from, to>>, <<direct>>)


(***************************************************************************)
(* gameStateManager.js / gameData.js: compareGameStates                    *)
(*                                                                         *)
(* In a delta, null is <<>> and a set field is <<v>>; a snapshot's         *)
(* currentPlayer v is itself <<>> (undefined) or <<p>>.                    *)
(***************************************************************************)
emptyDifferences ==
    [hasChanges |-> FALSE, playerChanged |-> FALSE, previousPlayer |-> <<>>,
     currentPlayer |-> <<>>, pieceMovements |-> <<>>, diceRolls |-> <<>>,
     statusChanged |-> FALSE]

\* { dice1: lastDiceRoll[0], dice2: lastDiceRoll[1] }
RollOfLast(lastDiceRoll) ==
    [dice1 |-> lastDiceRoll[1], dice2 |-> lastDiceRoll[2], sum |-> <<>>,
     player |-> <<>>, color |-> ""]

\* { dice1, dice2, sum, player, color } of a dice-log entry
RollOfEntry(e) ==
    [dice1 |-> e.dice1, dice2 |-> e.dice2, sum |-> <<e.sum>>,
     player |-> <<e.player>>, color |-> e.color]

Max(a, b) == IF a > b THEN a ELSE b

\* Variant: only the piece at index i is compared.
PlayerMovements_OnePiece(playerKey, prevPieces, newPieces, i) ==
    IF /\ i + 1 <= Len(prevPieces)
       /\ i + 1 <= Len(newPieces)
       /\ prevPieces[i + 1].position # newPieces[i + 1].position
    THEN <<[player |-> playerKey, piece |-> i, pieceId |-> newPieces[i + 1].id,
            from |-> prevPieces[i + 1].position,
            to |-> newPieces[i + 1].position]>>
    ELSE <<>>

\* The inner loop over pieceIndex, from 0-based index i on.
RECURSIVE PlayerMovements(_, _, _, _)
PlayerMovements(playerKey, prevPieces, newPieces, i) ==
    IF i >= Max(Len(prevPieces), Len(newPieces)) THEN <<>>
    ELSE (IF /\ i + 1 <= Len(prevPieces)
             /\ i + 1 <= Len(newPieces)
             /\ prevPieces[i + 1].position # newPieces[i + 1].position
          THEN <<[player |-> playerKey, piece |-> i, pieceId |-> newPieces[i + 1].id,
                  from |-> prevPieces[i + 1].position,
                  to |-> newPieces[i + 1].position]>>
          ELSE <<>>)
         \o PlayerMovements(playerKey, prevPieces, newPieces, i + 1)

\* previousState.piecesData[playerKey] || []
PiecesOr(pd, playerKey) == IF playerKey \in DOMAIN pd THEN pd[playerKey] ELSE <<>>

\* The outer loop: for (const playerKey in newState.piecesData), integer keys
\* in ascending order.
RECURSIVE AllMovements(_, _, _)
AllMovements(prevPd, newPd, keys) ==
    IF keys = {} THEN <<>>
    ELSE LET k == CHOOSE x \in keys : \A y \in keys : x <= y
         IN  PlayerMovements(k, PiecesOr(prevPd, k), PiecesOr(newPd, k), 0)
                 \o AllMovements(prevPd, newPd, keys \ {k})

\* gameStateManager.js: newState.diceLog[0]
FirstEntry(log) == 1

\* gameData.js: newState.diceLog[newState.diceLog.length - 1]
LastEntry(log) == Len(log)

\* Variant: the first-turn branch also reads the dice-roll log.
Compare_FirstTurnReadsLog(prev, new, latest) ==
    IF prev = <<>>
    THEN [emptyDifferences EXCEPT
            !.hasChanges = TRUE,
            !.currentPlayer = IF new.currentPlayer = <<>> THEN << <<1>> >>
                              ELSE <<new.currentPlayer>>,
            !.diceRolls = IF Len(new.diceLog) > 0
                          THEN <<RollOfEntry(new.diceLog[latest])>>
                          ELSE IF new.lastDiceRoll # <<>>
                          THEN <<RollOfLast(new.lastDiceRoll)>> ELSE <<>>]
    ELSE
    LET old == prev[1]
        playerChanged == old.currentPlayer # new.currentPlayer
        movements ==
            IF old.piecesData # <<>> /\ new.piecesData # <<>>
            THEN AllMovements(old.piecesData[1], new.piecesData[1],
                              DOMAIN new.piecesData[1])
            ELSE <<>>
        hasLog == Len(new.diceLog) > 0
        statusChanged == old.gamePhase # new.gamePhase
    IN  [hasChanges |-> playerChanged \/ Len(movements) > 0 \/ hasLog \/ statusChanged,
         playerChanged |-> playerChanged,
         previousPlayer |-> IF playerChanged THEN <<old.currentPlayer>> ELSE <<>>,
         currentPlayer |-> IF playerChanged THEN <<new.currentPlayer>> ELSE <<>>,
         pieceMovements |-> movements,
         diceRolls |-> IF hasLog THEN <<RollOfEntry(new.diceLog[latest])>>
                       ELSE IF new.lastDiceRoll # <<>>
                       THEN <<RollOfLast(new.lastDiceRoll)>>
                       ELSE <<>>,
         statusChanged |-> statusChanged]

\* Variant: a change of the game phase alone does not count as a change.
Compare_PhaseIsNoChange(prev, new, latest) ==
    IF prev = <<>>
    THEN [emptyDifferences EXCEPT
            !.hasChanges = TRUE,
            !.currentPlayer = IF new.currentPlayer = <<>> THEN << <<1>> >>
                              ELSE <<new.currentPlayer>>,
            !.diceRolls = IF new.lastDiceRoll # <<>>
                          THEN <<RollOfLast(new.lastDiceRoll)>> ELSE <<>>]
    ELSE
    LET old == prev[1]
        playerChanged == old.currentPlayer # new.currentPlayer
        movements ==
            IF old.piecesData # <<>> /\ new.piecesData # <<>>
            THEN AllMovements(old.piecesData[1], new.piecesData[1],
                              DOMAIN new.piecesData[1])
            ELSE <<>>
        hasLog == Len(new.diceLog) > 0
        statusChanged == old.gamePhase # new.gamePhase
    IN  [hasChanges |-> playerChanged \/ Len(movements) > 0 \/ hasLog,
         playerChanged |-> playerChanged,
         previousPlayer |-> IF playerChanged THEN <<old.currentPlayer>> ELSE <<>>,
         currentPlayer |-> IF playerChanged THEN <<new.currentPlayer>> ELSE <<>>,
         pieceMovements |-> movements,
         diceRolls |-> IF hasLog THEN <<RollOfEntry(new.diceLog[latest])>>
                       ELSE IF new.lastDiceRoll # <<>>
                       THEN <<RollOfLast(new.lastDiceRoll)>>
                       ELSE <<>>,
         statusChanged |-> statusChanged]

\* compareGameStates up to the choice of the dice-log entry: latest is the
\* 1-based position of the entry read.
Compare(prev, new, latest) ==
    IF prev = <<>>
    THEN [emptyDifferences EXCEPT
            !.hasChanges = TRUE,
            !.currentPlayer = IF new.currentPlayer = <<>> THEN << <<1>> >>
                              ELSE <<new.currentPlayer>>,
            !.diceRolls = IF new.lastDiceRoll # <<>>
                          THEN <<RollOfLast(new.lastDiceRoll)>> ELSE <<>>]
    ELSE
    LET old == prev[1]
        playerChanged == old.currentPlayer # new.currentPlayer
        movements ==
            IF old.piecesData # <<>> /\ new.piecesData # <<>>
            THEN AllMovements(old.piecesData[1], new.piecesData[1],
                              DOMAIN new.piecesData[1])
            ELSE <<>>
        hasLog == Len(new.diceLog) > 0
        statusChanged == old.gamePhase # new.gamePhase
    IN  [hasChanges |-> playerChanged \/ Len(movements) > 0 \/ hasLog \/ statusChanged,
         playerChanged |-> playerChanged,
         previousPlayer |-> IF playerChanged THEN <<old.currentPlayer>> ELSE <<>>,
         currentPlayer |-> IF playerChanged THEN <<new.currentPlayer>> ELSE <<>>,
         pieceMovements |-> movements,
         diceRolls |-> IF hasLog THEN <<RollOfEntry(new.diceLog[latest])>>
                       ELSE IF new.lastDiceRoll # <<>>
                       THEN <<RollOfLast(new.lastDiceRoll)>>
                       ELSE <<>>,
         statusChanged |-> statusChanged]

compareGameStates(prev, new) == Compare(prev, new, FirstEntry(new.diceLog))

compareGameStatesGD(prev, new) == Compare(prev, new, LastEntry(new.diceLog))


(***************************************************************************)
(* moveAnalyzer.js: generateMoveReport                                     *)
(*                                                                         *)
(* The report is the record of what its text is built from: the colour     *)
(* and where it came from, the dice details, and either the validation     *)
(* errors or the movement descriptions.                                    *)
(***************************************************************************)
\* ['', 'Красный', 'Желтый', 'Зеленый', 'Фиолетовый'], indices 1-4
playerColors == <<"Red", "Yellow", "Green", "Purple">>

\* `Игрок ${activePlayer}`
PlayerText(activePlayer) ==
    IF activePlayer = <<>> THEN "Player null"
    ELSE <<"Player 1", "Player 2", "Player 3", "Player 4">>[activePlayer[1]]

\* playersOrder.find(p => p.player === activePlayer), as <<entry>> or <<>>
FindPlayer(order, activePlayer) ==
    IF activePlayer # <<>> /\ \E i \in 1..Len(order) : order[i].player = activePlayer[1]
    THEN LET i == CHOOSE k \in 1..Len(order) :
                      /\ order[k].player = activePlayer[1]
                      /\ \A j \in 1..(k - 1) : order[j].player # activePlayer[1]
         IN  <<order[i]>>
    ELSE <<>>

\* Variant: the player-order table is looked at before the dice roll's color.
ResolveColor_TableFirst(d, state) ==
    LET who == IF d.previousPlayer # <<>> THEN d.previousPlayer[1]
               ELSE IF d.currentPlayer # <<>> THEN d.currentPlayer[1]
               ELSE <<>>
    IN  IF state.playersOrder # <<>>
        THEN LET playerInfo == FindPlayer(state.playersOrder[1], who)
             IN  [source |-> "playersOrder",
                  color |-> IF playerInfo # <<>> THEN playerInfo[1].color
                            ELSE PlayerText(who),
                  activePlayer |-> who]
        ELSE IF Len(d.diceRolls) > 0 /\ d.diceRolls[1].color # ""
        THEN [source |-> "dice", color |-> d.diceRolls[1].color,
              activePlayer |-> d.diceRolls[1].player]
        ELSE [source |-> "playerColors",
              color |-> IF who # <<>> /\ who[1] \in 1..Len(playerColors)
                        THEN playerColors[who[1]] ELSE PlayerText(who),
              activePlayer |-> who]

\* The player who moved and the colour shown for them.
ResolveColor(d, state) ==
    LET who == IF d.previousPlayer # <<>> THEN d.previousPlayer[1]
               ELSE IF d.currentPlayer # <<>> THEN d.currentPlayer[1]
               ELSE <<>>
    IN  IF Len(d.diceRolls) > 0 /\ d.diceRolls[1].color # ""
        THEN [source |-> "dice", color |-> d.diceRolls[1].color,
              activePlayer |-> d.diceRolls[1].player]
        ELSE IF state.playersOrder # <<>>
        THEN LET playerInfo == FindPlayer(state.playersOrder[1], who)
             IN  [source |-> "playersOrder",
                  color |-> IF playerInfo # <<>> THEN playerInfo[1].color
                            ELSE PlayerText(who),
                  activePlayer |-> who]
        ELSE [source |-> "playerColors",
              color |-> IF who # <<>> /\ who[1] \in 1..Len(playerColors)
                        THEN playerColors[who[1]] ELSE PlayerText(who),
              activePlayer |-> who]

\* The movement descriptions, a capture reported as 'was captured'.
detailedMovements(movements, state, rolls) ==
    [i \in 1..Len(movements) |->
        IF isPieceCaptured(movements[i])
        THEN Desc("captured", movements[i], <<>>, <<>>)
        ELSE analyzePieceMovement(movements[i], state, rolls)]

noChangesReport ==
    [kind |-> "noChanges", color |-> "", source |-> "", diceDetails |-> <<>>,
     errors |-> <<>>, details |-> <<>>]

\* Variant: validation errors are reported although nothing changed.
generateMoveReport_ErrorsFirst(d, state, validationErrors) ==
    IF ~d.hasChanges /\ Len(validationErrors) = 0 THEN noChangesReport
    ELSE
    LET c == ResolveColor(d, state)
        showsMoves == Len(d.pieceMovements) > 0
    IN  [kind |-> "report", color |-> c.color, source |-> c.source,
         diceDetails |->
             [i \in 1..Len(d.diceRolls) |->
                 <<d.diceRolls[i].dice1, d.diceRolls[i].dice2,
                   d.diceRolls[i].dice1 + d.diceRolls[i].dice2>>],
         errors |-> IF showsMoves /\ Len(validationErrors) > 0
                    THEN validationErrors ELSE <<>>,
         details |-> IF showsMoves /\ Len(validationErrors) = 0
                     THEN detailedMovements(d.pieceMovements, state, d.diceRolls)
                     ELSE <<>>]

\* Variant: the movement descriptions are shown with or without errors.
generateMoveReport_DetailsWithErrors(d, state, validationErrors) ==
    IF ~d.hasChanges THEN noChangesReport
    ELSE
    LET c == ResolveColor(d, state)
        showsMoves == Len(d.pieceMovements) > 0
    IN  [kind |-> "report", color |-> c.color, source |-> c.source,
         diceDetails |->
             [i \in 1..Len(d.diceRolls) |->
                 <<d.diceRolls[i].dice1, d.diceRolls[i].dice2,
                   d.diceRolls[i].dice1 + d.diceRolls[i].dice2>>],
         errors |-> IF showsMoves /\ Len(validationErrors) > 0
                    THEN validationErrors ELSE <<>>,
         details |-> IF showsMoves
                     THEN detailedMovements(d.pieceMovements, state, d.diceRolls)
                     ELSE <<>>]

generateMoveReport(d, state, validationErrors) ==
    IF ~d.hasChanges THEN noChangesReport
    ELSE
    LET c == ResolveColor(d, state)
        showsMoves == Len(d.pieceMovements) > 0
    IN  [kind |-> "report", color |-> c.color, source |-> c.source,
         diceDetails |->
             [i \in 1..Len(d.diceRolls) |->
                 <<d.diceRolls[i].dice1, d.diceRolls[i].dice2,
                   d.diceRolls[i].dice1 + d.diceRolls[i].dice2>>],
         errors |-> IF showsMoves /\ Len(validationErrors) > 0
                    THEN validationErrors ELSE <<>>,
         details |-> IF showsMoves /\ Len(validationErrors) = 0
                     THEN detailedMovements(d.pieceMovements, state, d.diceRolls)
                     ELSE <<>>]

\* generateMoveReport of gameData.js: the colour, the dice values and one
\* plain entry per movement; it takes no validation errors.
generateMoveReportGD(d, state) ==
    IF ~d.hasChanges THEN noChangesReport
    ELSE
    LET c == ResolveColor(d, state)
    IN  [kind |-> "report", color |-> c.color, source |-> c.source,
         diceDetails |->
             [i \in 1..Len(d.diceRolls) |->
                 <<d.diceRolls[i].dice1, d.diceRolls[i].dice2,
                   d.diceRolls[i].dice1 + d.diceRolls[i].dice2>>],
         errors |-> <<>>,
         details |->
             [i \in 1..Len(d.pieceMovements) |->
                 [piece |-> PieceLabel(d.pieceMovements[i]),
                  from |-> d.pieceMovements[i].from,
                  to |-> d.pieceMovements[i].to]]]


(***************************************************************************)
(* Bounds and inputs                                                       *)
(***************************************************************************)
\* Client edits made to the snapshot over a behaviour.
MaxEdits == 2

\* Entries the dice-roll log can hold.
MaxLog == 2

\* Pieces a player's list can grow to by a client edit.
MaxPieces == 2

\* Cells a client moves a piece to.
MoveCells == {A1, B3, E3, D5, D7, G1}

\* Dice rolls a client records.
ClientRolls == {<<1, 4>>, <<2, 4>>, <<3, 6>>, <<4, 5>>}

Phases == {"playing", "finished"}

Piece(id, position) == [id |-> id, position |-> position]

SeedA ==
    [currentPlayer |-> <<1>>,
     piecesData |-> <<[k \in {1, 2} |->
                        IF k = 1 THEN <<Piece("R1", A1), Piece("R2", G1)>>
                                 ELSE <<Piece("Y1", D6)>>]>>,
     lastDiceRoll |-> <<>>,
     diceLog |-> <<>>,
     gamePhase |-> "playing",
     playersOrder |-> <<>>]

SeedB ==
    [currentPlayer |-> <<2>>,
     piecesData |-> <<[k \in {1, 2} |->
                        IF k = 1 THEN <<Piece("R1", C3)>>
                                 ELSE <<Piece("Y1", G7), Piece("", D5)>>]>>,
     lastDiceRoll |-> <<2, 4>>,
     diceLog |-> <<[dice1 |-> 2, dice2 |-> 4, sum |-> 6, player |-> 1,
                    color |-> "Crimson"]>>,
     gamePhase |-> "playing",
     playersOrder |-> <<<<[player |-> 1, color |-> "Crimson"],
                          [player |-> 2, color |-> "Gold"]>>>>]

\* A new game: nothing set yet.
SeedNew ==
    [currentPlayer |-> <<>>, piecesData |-> <<>>, lastDiceRoll |-> <<>>,
     diceLog |-> <<>>, gamePhase |-> "playing", playersOrder |-> <<>>]

\* The saved_games record of the game: <<>> when there is none, else
\* <<[new_game_state]>> with new_game_state <<>> (null) or <<snapshot>>.
Record(state) == <<[new_game_state |-> state]>>

SeedRecords == {<<>>, Record(<<>>), Record(<<SeedA>>), Record(<<SeedB>>)}

\* The snapshot a client holds for a record.
ClientView(record) ==
    IF record # <<>> /\ record[1].new_game_state # <<>>
    THEN record[1].new_game_state[1]
    ELSE SeedNew

\* Arguments of the single-movement calls.
Movements ==
    {[player |-> p, piece |-> 0, pieceId |-> id, from |-> f, to |-> t] :
        p \in Players, id \in {"R1", ""}, f \in Cells, t \in Cells}

RollInputs ==
    {<<>>} \cup {<<[dice1 |-> a, dice2 |-> b, sum |-> <<>>, player |-> <<>>,
                    color |-> ""]>> : a \in Dice, b \in Dice}

\* Snapshots a single movement can end in: the moved piece alone, or with
\* another player's piece on one of the cells.
Contexts(m) ==
    LET other == IF m.player = 1 THEN 2 ELSE 1
        alone == [SeedNew EXCEPT !.piecesData =
                     <<[k \in {m.player} |-> <<Piece(m.pieceId, m.to)>>]>>]
        with(c) == [SeedNew EXCEPT !.piecesData =
                     <<[k \in {m.player, other} |->
                         IF k = m.player THEN <<Piece(m.pieceId, m.to)>>
                         ELSE <<Piece("X1", c)>>]>>]
    IN  IF getZoneType(m.to, m.player).type = "home"
        THEN {alone} \cup {with(c) : c \in {D7, D1}}
        ELSE {alone}


(***************************************************************************)
(* Single calls of the pure functions                                      *)
(***************************************************************************)
\* No call of updateGameState has been made.
noRequest == [chprId |-> "", gameState |-> ""]

idleCall ==
    /\ db = <<>>
    /\ clientState = SeedNew
    /\ edits = 0
    /\ gameState = <<>>
    /\ previousState = <<>>
    /\ differences = <<>>
    /\ differencesGD = <<>>
    /\ validationResult = <<>>
    /\ moveReport = <<>>
    /\ result = <<>>
    /\ request = noRequest
    /\ moveReportGD = <<>>
    /\ resultGD = <<>>

InitDist ==
    /\ pc = "call"
    /\ movement \in {m \in Movements : m.pieceId = "R1"}
    /\ diceRolls = <<>>
    /\ actualSteps = <<>>
    /\ validation = <<>>
    /\ description = <<>>
    /\ idleCall

\* calculateGamePathDistance(from, to, player)
DistanceCall ==
    /\ pc = "call"
    /\ actualSteps' = <<calculateGamePathDistance(movement.from, movement.to,
                                                  movement.player)>>
    /\ pc' = "returned"
    /\ UNCHANGED <<movement, diceRolls, validation, description>>
    /\ UNCHANGED callVars

NextDist == DistanceCall

SpecDist == InitDist /\ [][NextDist]_vars

InitMove ==
    /\ pc = "call"
    /\ movement \in {m \in Movements : m.from # m.to}
    /\ diceRolls \in RollInputs
    /\ actualSteps = <<>>
    /\ validation = <<>>
    /\ description = <<>>
    /\ idleCall

\* validateMove(movement, diceRolls), with the distance it measured
ValidateMoveCall ==
    /\ pc = "call"
    /\ validation' = <<validateMove(movement, diceRolls)>>
    /\ actualSteps' = <<calculateGamePathDistance(movement.from, movement.to,
                                                  movement.player)>>
    /\ pc' = "validated"
    /\ UNCHANGED <<movement, diceRolls, description>>
    /\ UNCHANGED callVars

\* analyzePieceMovement(movement, gameState, diceRolls)
AnalyzeCall ==
    /\ pc = "validated"
    /\ \E ctx \in Contexts(movement) :
          /\ gameState' = <<ctx>>
          /\ description' = <<analyzePieceMovement(movement, ctx, diceRolls)>>
    /\ pc' = "returned"
    /\ UNCHANGED <<movement, diceRolls, actualSteps, validation>>
    /\ UNCHANGED <<db, clientState, edits, previousState, differences,
                   differencesGD, validationResult, moveReport, result, request,
                   moveReportGD, resultGD>>

NextMove == ValidateMoveCall \/ AnalyzeCall

SpecMove == InitMove /\ [][NextMove]_vars


\* No single movement is being validated.
idleMove ==
    /\ movement = <<>>
    /\ diceRolls = <<>>
    /\ actualSteps = <<>>
    /\ validation = <<>>
    /\ description = <<>>


(***************************************************************************)
(* Single calls of generateMoveReport                                      *)
(***************************************************************************)
\* Movement lists of a delta: none, one move, a move and a capture.
ReportMovements ==
    LET move == [player |-> 1, piece |-> 0, pieceId |-> "R1", from |-> C3, to |-> D3]
        capture == [player |-> 2, piece |-> 0, pieceId |-> "Y1", from |-> D5, to |-> G7]
    IN  {<<>>, <<move>>, <<move, capture>>}

\* Resolved dice rolls of a delta: none, one of lastDiceRoll, one of a log
\* entry with its player and color.
ReportRolls ==
    {<<>>,
     <<RollOfLast(<<1, 4>>)>>,
     <<RollOfEntry([dice1 |-> 1, dice2 |-> 4, sum |-> 5, player |-> 2,
                    color |-> "Azure"])>>}

\* Deltas handed to generateMoveReport.
ReportDeltas ==
    {[hasChanges |-> h, playerChanged |-> prevP # <<>>, previousPlayer |-> prevP,
      currentPlayer |-> curP, pieceMovements |-> ms, diceRolls |-> rs,
      statusChanged |-> FALSE] :
        h \in BOOLEAN, prevP \in {<<>>, << <<1>> >>},
        curP \in {<<>>, << <<2>> >>, << <<3>> >>},
        ms \in ReportMovements, rs \in ReportRolls}

\* Validation errors handed to generateMoveReport.
ReportErrors ==
    LET m == [player |-> 1, piece |-> 0, pieceId |-> "R1", from |-> C3, to |-> D3]
    IN  {<<>>,
         <<Msg("distance", m, <<2, 4, 6>>, <<1>>)>>,
         <<Msg("distance", m, <<2, 4, 6>>, <<1>>), Msg("prisonNoSix", m, <<2, 4>>, <<>>)>>}

InitReport ==
    /\ pc = "call"
    /\ differences \in {<<d>> : d \in ReportDeltas}
    /\ gameState \in {<<SeedA>>, <<SeedB>>}
    /\ validationResult \in
          {<<[isValid |-> Len(e) = 0, errorMessages |-> e]>> : e \in ReportErrors}
    /\ moveReport = <<>>
    /\ db = <<>>
    /\ clientState = SeedNew
    /\ edits = 0
    /\ previousState = <<>>
    /\ differencesGD = <<>>
    /\ result = <<>>
    /\ request = noRequest
    /\ moveReportGD = <<>>
    /\ resultGD = <<>>
    /\ idleMove

\* generateMoveReport(differences, gameState, validationErrors)
ReportCall ==
    /\ pc = "call"
    /\ moveReport' = <<generateMoveReport(differences[1], gameState[1],
                                          validationResult[1].errorMessages)>>
    /\ pc' = "returned"
    /\ UNCHANGED <<db, clientState, edits, gameState, previousState, differences,
                   differencesGD, validationResult, result, request,
                   moveReportGD, resultGD>>
    /\ UNCHANGED moveVars

NextReport == ReportCall

SpecReport == InitReport /\ [][NextReport]_vars


(***************************************************************************)
(* The client and updateGameState (gameStateManager.js)                    *)
(***************************************************************************)
Init ==
    /\ pc = "idle"
    /\ db \in SeedRecords
    /\ clientState = ClientView(db)
    /\ edits = 0
    /\ gameState = <<>>
    /\ previousState = <<>>
    /\ differences = <<>>
    /\ differencesGD = <<>>
    /\ validationResult = <<>>
    /\ moveReport = <<>>
    /\ result = <<>>
    /\ request = noRequest
    /\ moveReportGD = <<>>
    /\ resultGD = <<>>
    /\ idleMove

callState == <<gameState, previousState, differences, differencesGD,
               validationResult, moveReport, result, request, moveReportGD,
               resultGD>>

Edit(new) ==
    /\ pc = "idle"
    /\ edits < MaxEdits
    /\ clientState' = new
    /\ edits' = edits + 1
    /\ UNCHANGED <<pc, db>>
    /\ UNCHANGED callState
    /\ UNCHANGED moveVars

\* The client moves one piece to another cell.
MovePiece ==
    /\ clientState.piecesData # <<>>
    /\ \E k \in DOMAIN clientState.piecesData[1] :
         \E i \in 1..Len(clientState.piecesData[1][k]) :
           \E c \in MoveCells :
             /\ c # clientState.piecesData[1][k][i].position
             /\ Edit([clientState EXCEPT !.piecesData[1][k][i].position = c])

\* The client records a dice roll: lastDiceRoll and a new last log entry.
RollDice ==
    /\ Len(clientState.diceLog) < MaxLog
    /\ \E r \in ClientRolls :
         LET who == IF clientState.currentPlayer = <<>> THEN 1
                    ELSE clientState.currentPlayer[1]
         IN  Edit([clientState EXCEPT
                     !.lastDiceRoll = r,
                     !.diceLog = Append(@, [dice1 |-> r[1], dice2 |-> r[2],
                                            sum |-> r[1] + r[2], player |-> who,
                                            color |-> playerColors[who]])])

\* The turn passes to another player.
SwitchPlayer ==
    \E p \in {1, 2} :
        /\ clientState.currentPlayer # <<p>>
        /\ Edit([clientState EXCEPT !.currentPlayer = <<p>>])

\* The game phase changes.
SetPhase ==
    \E ph \in Phases :
        /\ ph # clientState.gamePhase
        /\ Edit([clientState EXCEPT !.gamePhase = ph])

\* A player's last piece leaves the snapshot.
DropPiece ==
    /\ clientState.piecesData # <<>>
    /\ \E k \in DOMAIN clientState.piecesData[1] :
         /\ Len(clientState.piecesData[1][k]) > 0
         /\ Edit([clientState EXCEPT !.piecesData[1][k] =
                     SubSeq(@, 1, Len(@) - 1)])

\* A player's piece list gets a further piece; a player without list gets one.
AddPiece ==
    /\ clientState.piecesData # <<>>
    /\ \E k \in {1, 2} :
         LET pd == clientState.piecesData[1]
             old == IF k \in DOMAIN pd THEN pd[k] ELSE <<>>
         IN  /\ Len(old) < MaxPieces
             /\ Edit([clientState EXCEPT !.piecesData =
                         <<[j \in DOMAIN pd \cup {k} |->
                             IF j = k THEN Append(old, Piece("N1", B3))
                             ELSE pd[j]]>>])

\* A player leaves the snapshot's piece mapping.
DropPlayer ==
    /\ clientState.piecesData # <<>>
    /\ \E k \in DOMAIN clientState.piecesData[1] :
         Edit([clientState EXCEPT !.piecesData =
                  <<[j \in DOMAIN clientState.piecesData[1] \ {k} |->
                      clientState.piecesData[1][j]]>>])

\* The failure result of updateGameState.
Failure(code) ==
    [success |-> FALSE, error |-> code, moveReport |-> <<>>,
     validationResult |-> <<>>]

\* The failure result of gameData.js.
FailureGD(code) == [success |-> FALSE, error |-> code, moveReport |-> <<>>]

\* The shapes the two arguments of updateGameState can have.
ChprIdKinds == {"empty", "nonString", "string"}
GameStateKinds == {"missing", "nonObject", "nonSerializable", "object"}
Request(id, state) == [chprId |-> id, gameState |-> state]

\* The calls made: the well-formed one, one per malformed argument, and one
\* with both arguments malformed.
Requests ==
    {Request("string", "object"),
     Request("empty", "object"), Request("nonString", "object"),
     Request("string", "missing"), Request("string", "nonObject"),
     Request("string", "nonSerializable"), Request("empty", "missing")}

\* Variant: the snapshot is not tried for serialization.
InputError_NoJsonCheck(req) ==
    IF req.chprId # "string" THEN "INVALID_CHPR_ID"
    ELSE IF req.gameState \in {"missing", "nonObject"} THEN "INVALID_GAME_STATE"
    ELSE ""

\* The checks of the arguments, in the order of the code: the code of the
\* first failed check, "" when all pass.
InputError(req) ==
    IF req.chprId # "string" THEN "INVALID_CHPR_ID"
    ELSE IF req.gameState \in {"missing", "nonObject"} THEN "INVALID_GAME_STATE"
    ELSE IF req.gameState = "nonSerializable" THEN "INVALID_JSON"
    ELSE ""

\* updateGameState(chprId, gameState) with an argument that fails a check:
\* the call returns at that check.
RejectInput ==
    /\ pc = "idle"
    /\ \E req \in Requests :
         /\ InputError(req) # ""
         /\ request' = req
         /\ result' = <<Failure(InputError(req))>>
         /\ resultGD' = <<FailureGD(InputError(req))>>
    /\ gameState' = <<>>
    /\ previousState' = <<>>
    /\ differences' = <<>>
    /\ differencesGD' = <<>>
    /\ validationResult' = <<>>
    /\ moveReport' = <<>>
    /\ moveReportGD' = <<>>
    /\ pc' = "idle"
    /\ UNCHANGED <<db, clientState, edits>>
    /\ UNCHANGED moveVars

\* updateGameState(chprId, gameState) up to the first await: the arguments pass
\* the checks and getPreviousGameState is called.
Submit ==
    /\ pc = "idle"
    /\ gameState' = <<clientState>>
    /\ previousState' = <<>>
    /\ differences' = <<>>
    /\ differencesGD' = <<>>
    /\ validationResult' = <<>>
    /\ moveReport' = <<>>
    /\ result' = <<>>
    /\ \E req \in Requests :
         /\ InputError(req) = ""
         /\ request' = req
    /\ moveReportGD' = <<>>
    /\ resultGD' = <<>>
    /\ pc' = "fetching"
    /\ UNCHANGED <<db, clientState, edits>>
    /\ UNCHANGED moveVars

\* getPreviousGameState: the stored snapshot; null when there is no record
\* (PGRST116) and, through the catch, when the query fails.
GetPreviousGameState ==
    /\ pc = "fetching"
    /\ \E failed \in BOOLEAN :
         previousState' = IF failed \/ db = <<>> THEN <<>>
                          ELSE db[1].new_game_state
    /\ pc' = "finding"
    /\ UNCHANGED <<db, clientState, edits, gameState, differences, differencesGD,
                   validationResult, moveReport, result, request, moveReportGD,
                   resultGD>>
    /\ UNCHANGED moveVars

\* Variant: a missing record is created with the snapshot before the call
\* reports RECORD_NOT_FOUND.
FindRecordFails_CreatesRecord ==
    /\ pc = "finding"
    /\ \E failed \in BOOLEAN :
         /\ failed \/ db = <<>>
         /\ result' = <<Failure(IF failed THEN "findError" ELSE "RECORD_NOT_FOUND")>>
         /\ resultGD' = <<FailureGD(IF failed THEN "findError"
                                    ELSE "RECORD_NOT_FOUND")>>
         /\ db' = IF failed THEN db ELSE Record(gameState)
    /\ pc' = "idle"
    /\ UNCHANGED <<clientState, edits, gameState, previousState, differences,
                   differencesGD, validationResult, moveReport, request,
                   moveReportGD>>
    /\ UNCHANGED moveVars

\* The lookup of the record fails or finds nothing: the call returns.
FindRecordFails ==
    /\ pc = "finding"
    /\ \E failed \in BOOLEAN :
         /\ failed \/ db = <<>>
         /\ result' = <<Failure(IF failed THEN "findError" ELSE "RECORD_NOT_FOUND")>>
         /\ resultGD' = <<FailureGD(IF failed THEN "findError"
                                    ELSE "RECORD_NOT_FOUND")>>
    /\ pc' = "idle"
    /\ UNCHANGED <<db, clientState, edits, gameState, previousState, differences,
                   differencesGD, validationResult, moveReport, request,
                   moveReportGD>>
    /\ UNCHANGED moveVars

\* Variant: the default current player is written into the new snapshot.
CompareValidateReport_WritesDefaultPlayer ==
    /\ pc = "finding"
    /\ db # <<>>
    /\ differences' = <<compareGameStates(previousState, gameState[1])>>
    /\ differencesGD' = <<compareGameStatesGD(previousState, gameState[1])>>
    /\ validationResult' = <<validateAllMoves(differences'[1].pieceMovements,
                                              differences'[1].diceRolls)>>
    /\ moveReport' = <<generateMoveReport(differences'[1], gameState[1],
                                          validationResult'[1].errorMessages)>>
    /\ moveReportGD' = <<generateMoveReportGD(differencesGD'[1], gameState[1])>>
    /\ pc' = "updating"
    /\ gameState' = <<[gameState[1] EXCEPT
                         !.currentPlayer = IF @ = <<>> THEN <<1>> ELSE @]>>
    /\ UNCHANGED <<db, clientState, edits, previousState, result, request,
                   resultGD>>
    /\ UNCHANGED moveVars

\* The record is found: compareGameStates, validateAllMoves and
\* generateMoveReport run, and the update is sent.
CompareValidateReport ==
    /\ pc = "finding"
    /\ db # <<>>
    /\ differences' = <<compareGameStates(previousState, gameState[1])>>
    /\ differencesGD' = <<compareGameStatesGD(previousState, gameState[1])>>
    /\ validationResult' = <<validateAllMoves(differences'[1].pieceMovements,
                                              differences'[1].diceRolls)>>
    /\ moveReport' = <<generateMoveReport(differences'[1], gameState[1],
                                          validationResult'[1].errorMessages)>>
    /\ moveReportGD' = <<generateMoveReportGD(differencesGD'[1], gameState[1])>>
    /\ pc' = "updating"
    /\ UNCHANGED <<db, clientState, edits, gameState, previousState, result,
                   request, resultGD>>
    /\ UNCHANGED moveVars

\* Variant: a turn with validation errors is refused instead of stored.
StoreState_RefusesInvalid ==
    /\ pc = "updating"
    /\ \E failed \in BOOLEAN :
         IF failed
         THEN /\ result' = <<Failure("updateError")>>
              /\ resultGD' = <<FailureGD("updateError")>>
              /\ db' = db
         ELSE IF ~validationResult[1].isValid
         THEN /\ result' = <<Failure("INVALID_MOVE")>>
              /\ resultGD' = <<FailureGD("INVALID_MOVE")>>
              /\ db' = db
         ELSE /\ result' = <<[success |-> TRUE, error |-> "",
                              moveReport |-> moveReport,
                              validationResult |-> validationResult]>>
              /\ resultGD' = <<[success |-> TRUE, error |-> "",
                                moveReport |-> moveReportGD]>>
              /\ db' = Record(gameState)
    /\ pc' = "idle"
    /\ UNCHANGED <<clientState, edits, gameState, previousState, differences,
                   differencesGD, validationResult, moveReport, request,
                   moveReportGD>>
    /\ UNCHANGED moveVars

\* The update of new_game_state succeeds, or fails with updateError.
StoreState ==
    /\ pc = "updating"
    /\ \E failed \in BOOLEAN :
         IF failed
         THEN /\ result' = <<Failure("updateError")>>
              /\ resultGD' = <<FailureGD("updateError")>>
              /\ db' = db
         ELSE /\ result' = <<[success |-> TRUE, error |-> "",
                              moveReport |-> moveReport,
                              validationResult |-> validationResult]>>
              /\ resultGD' = <<[success |-> TRUE, error |-> "",
                                moveReport |-> moveReportGD]>>
              /\ db' = Record(gameState)
    /\ pc' = "idle"
    /\ UNCHANGED <<clientState, edits, gameState, previousState, differences,
                   differencesGD, validationResult, moveReport, request,
                   moveReportGD>>
    /\ UNCHANGED moveVars

Next ==
    \/ MovePiece
    \/ RollDice
    \/ SwitchPlayer
    \/ SetPhase
    \/ DropPiece
    \/ AddPiece
    \/ DropPlayer
    \/ Submit
    \/ GetPreviousGameState
    \/ FindRecordFails
    \/ CompareValidateReport
    \/ StoreState

Spec == Init /\ [][Next]_vars


(***************************************************************************)
(* Calls of updateGameState with arbitrary arguments                       *)
(***************************************************************************)
\* The snapshots a client sends.
CallSnapshots ==
    {SeedA, SeedB, SeedNew, [SeedA EXCEPT !.piecesData[1][1][1].position = B3]}

InitInput ==
    /\ pc = "idle"
    /\ db \in SeedRecords
    /\ clientState \in CallSnapshots
    /\ edits = 0
    /\ gameState = <<>>
    /\ previousState = <<>>
    /\ differences = <<>>
    /\ differencesGD = <<>>
    /\ validationResult = <<>>
    /\ moveReport = <<>>
    /\ result = <<>>
    /\ request = noRequest
    /\ moveReportGD = <<>>
    /\ resultGD = <<>>
    /\ idleMove

NextInput ==
    \/ RejectInput
    \/ Submit
    \/ GetPreviousGameState
    \/ FindRecordFails
    \/ CompareValidateReport
    \/ StoreState

SpecInput == InitInput /\ [][NextInput]_vars


(***************************************************************************)
(* Two calls of updateGameState for the same record                        *)
(***************************************************************************)
\* The update of another call for the same CHPR_id is applied: the calls
\* share nothing but the record, and no step of a call locks it.
OtherCallStores ==
    /\ db # <<>>
    /\ \E s \in CallSnapshots :
         /\ db # Record(<<s>>)
         /\ db' = Record(<<s>>)
    /\ UNCHANGED <<pc, clientState, edits>>
    /\ UNCHANGED callState
    /\ UNCHANGED moveVars

NextRace ==
    \/ RejectInput
    \/ Submit
    \/ GetPreviousGameState
    \/ FindRecordFails
    \/ CompareValidateReport
    \/ StoreState
    \/ OtherCallStores

SpecRace == InitInput /\ [][NextRace]_vars


(***************************************************************************)
(* Properties                                                              *)
(***************************************************************************)
\* The call of validateMove has returned.
Validated == pc \in {"validated", "returned"}

\* validateMove reported a message of the rule.
Reported(rule) ==
    \E i \in 1..Len(validation[1].errorMessages) :
        validation[1].errorMessages[i].rule = rule

FromType == getZoneType(movement.from, movement.player).type

ToType == getZoneType(movement.to, movement.player).type

\* Destination waiting, origin not: the movement is a capture.
Capture == ToType = "waiting" /\ FromType # "waiting"

HasDice == Len(diceRolls) > 0

\* C1: the diff of a snapshot against itself has hasChanges = false and no
\* piece movements, whatever its dice-roll log holds (both implementations).
C1_SelfDiffHasNoChanges ==
    (pc = "updating" /\ previousState = gameState)
        => /\ ~differences[1].hasChanges
           /\ differences[1].pieceMovements = <<>>
           /\ ~differencesGD[1].hasChanges
           /\ differencesGD[1].pieceMovements = <<>>

\* C2: a non-capture movement by p that starts on another player's teleport
\* cell gets a teleport-ownership message; one that starts on p's own
\* teleport cell gets none.
C2_ForeignTeleportRejected ==
    (Validated /\ ~Capture)
        => /\ (\E q \in DOMAIN gameZones.teleportZones :
                  /\ q # movement.player
                  /\ movement.from = gameZones.teleportZones[q])
              => Reported("teleport")
           /\ (/\ movement.player \in DOMAIN gameZones.teleportZones
               /\ movement.from = gameZones.teleportZones[movement.player])
              => ~Reported("teleport")

\* C3: for a non-capture movement and a dice roll, the distance rule reports
\* a violation exactly when the path distance is none of dice1, dice2 and
\* dice1 + dice2.
C3_DistanceRuleIffNoDiceMatch ==
    (Validated /\ ~Capture /\ HasDice)
        => (Reported("distance")
              <=> /\ actualSteps[1] # diceRolls[1].dice1
                  /\ actualSteps[1] # diceRolls[1].dice2
                  /\ actualSteps[1] # diceRolls[1].dice1 + diceRolls[1].dice2)

C3_Witness ==
    /\ Validated /\ ~Capture /\ HasDice
    /\ diceRolls[1].dice1 # diceRolls[1].dice2
    /\ actualSteps[1] = diceRolls[1].dice1 + diceRolls[1].dice2
    /\ ~Reported("distance")

\* C4: a movement into the mover's waiting zone from outside it is valid with
\* no messages, with any dice roll or none and whatever the distance.
C4_CaptureAlwaysValid ==
    (Validated /\ Capture)
        => validation[1] = [isValid |-> TRUE, errorMessages |-> <<>>]

C4_Witness ==
    /\ Validated /\ Capture
    /\ FromType = "prison"
    /\ ~HasDice
    /\ validation[1].isValid

\* C5: for a movement out of the waiting zone and a dice roll, the
\* waiting-exit rule reports a violation exactly when neither die is 1, and
\* the message names the piece id and the two dice values.
C5_WaitingExitNeedsOne ==
    (Validated /\ FromType = "waiting" /\ ToType # "waiting" /\ HasDice)
        => /\ Reported("waitingNoOne")
                <=> (diceRolls[1].dice1 # 1 /\ diceRolls[1].dice2 # 1)
           /\ ~Reported("waitingNoDice")
           /\ \A i \in 1..Len(validation[1].errorMessages) :
                 LET msg == validation[1].errorMessages[i]
                 IN  msg.rule = "waitingNoOne"
                        => /\ movement.pieceId # "" => msg.piece = movement.pieceId
                           /\ msg.dice = <<diceRolls[1].dice1, diceRolls[1].dice2>>

C5_Witness ==
    /\ Validated /\ FromType = "waiting" /\ ToType = "starting"
    /\ movement.pieceId = "R1"
    /\ HasDice /\ diceRolls[1].dice1 = 2 /\ diceRolls[1].dice2 = 4
    /\ Reported("waitingNoOne")

\* C6: for a non-capture movement out of a prison cell and a dice roll, the
\* prison-exit rule reports a violation exactly when neither die is 6,
\* whatever the destination and the dice sum.
C6_PrisonExitNeedsSix ==
    (Validated /\ ~Capture /\ FromType = "prison" /\ HasDice)
        => /\ Reported("prisonNoSix")
                <=> (diceRolls[1].dice1 # 6 /\ diceRolls[1].dice2 # 6)
           /\ ~Reported("prisonNoDice")

C6_Witness ==
    /\ Validated /\ ~Capture /\ FromType = "prison" /\ HasDice
    /\ diceRolls[1].dice1 + diceRolls[1].dice2 = 6
    /\ Reported("prisonNoSix")


\* The turn moved piece i of player k, and nothing else on the board, from
\* the player's waiting zone to the player's starting zone.
WaitingExitTurn(k, i) ==
    /\ previousState # <<>>
    /\ previousState[1].piecesData # <<>>
    /\ gameState[1].piecesData # <<>>
    /\ k \in DOMAIN previousState[1].piecesData[1]
    /\ k \in DOMAIN gameState[1].piecesData[1]
    /\ i \in 1..Len(previousState[1].piecesData[1][k])
    /\ i \in 1..Len(gameState[1].piecesData[1][k])
    /\ gameState[1].piecesData[1] =
          [previousState[1].piecesData[1] EXCEPT
              ![k][i].position = gameState[1].piecesData[1][k][i].position]
    /\ getZoneType(previousState[1].piecesData[1][k][i].position, k).type = "waiting"
    /\ getZoneType(gameState[1].piecesData[1][k][i].position, k).type = "starting"

\* The movement the diff is to report for that turn.
WaitingExitMovement(k, i) ==
    [player |-> k, piece |-> i - 1,
     pieceId |-> gameState[1].piecesData[1][k][i].id,
     from |-> previousState[1].piecesData[1][k][i].position,
     to |-> gameState[1].piecesData[1][k][i].position]

\* The dice roll of the turn shows a 1.
TurnRollHasOne ==
    /\ Len(differences[1].diceRolls) > 0
    /\ (differences[1].diceRolls[1].dice1 = 1 \/ differences[1].diceRolls[1].dice2 = 1)

\* C7: when a piece moves from its player's waiting zone to that player's
\* starting zone and a die of the turn's roll shows 1, the diff reports
\* exactly that movement, validation finds no violation and the report
\* describes the movement as having left the waiting zone.
C7_WaitingExitWithOne ==
    \A k \in {1, 2} : \A i \in 1..2 :
        (pc = "updating" /\ WaitingExitTurn(k, i) /\ TurnRollHasOne)
            => /\ differences[1].pieceMovements = <<WaitingExitMovement(k, i)>>
               /\ validationResult[1] = [isValid |-> TRUE, errorMessages |-> <<>>]
               /\ moveReport[1].details =
                     <<Desc("leftWaiting", WaitingExitMovement(k, i), <<>>, <<>>)>>

C7_Witness ==
    /\ pc = "updating"
    /\ WaitingExitTurn(1, 1)
    /\ TurnRollHasOne
    /\ differences[1].diceRolls[1].dice2 = 4
    /\ moveReport[1].kind = "report"

\* The movement leaves a prison cell for a field cell three path steps
\* past the prison's trigger cell.
PrisonThreePast ==
    /\ FromType = "prison"
    /\ ToType = "field"
    /\ movement.player \in DOMAIN gameZones.playerPaths
    /\ LET path == gameZones.playerPaths[movement.player]
           trigger == getSourceTriggerCell(movement.from)[1].trigger
       IN  /\ trigger \in Range(path)
           /\ movement.to \in Range(path)
           /\ indexOf(path, movement.to) = indexOf(path, trigger) + 3

\* The report says the piece left prison on six and moved 3 steps from the
\* trigger cell, and validation passes.
PrisonExitNarratedAndValid ==
    /\ description[1].kind = "leftPrisonOnSixMoved"
    /\ description[1].cells =
          <<getSourceTriggerCell(movement.from)[1].trigger, movement.to>>
    /\ description[1].steps = <<3>>
    /\ validation[1] = [isValid |-> TRUE, errorMessages |-> <<>>]

\* C8 as stated: with any dice roll of sum 9.
C8_AnySumNine ==
    (/\ pc = "returned" /\ PrisonThreePast /\ HasDice
     /\ diceRolls[1].dice1 + diceRolls[1].dice2 = 9)
        => PrisonExitNarratedAndValid

\* C8 amended: with a dice roll of sum 9 in which a die shows 6, the report
\* says the piece left prison on six and moved 3 steps from the trigger cell,
\* and validation passes.
C8_SumNineWithSix ==
    (/\ pc = "returned" /\ PrisonThreePast /\ HasDice
     /\ diceRolls[1].dice1 + diceRolls[1].dice2 = 9
     /\ (diceRolls[1].dice1 = 6 \/ diceRolls[1].dice2 = 6))
        => PrisonExitNarratedAndValid

C8_Witness ==
    /\ pc = "returned" /\ PrisonThreePast /\ HasDice
    /\ diceRolls[1].dice1 = 3 /\ diceRolls[1].dice2 = 6
    /\ description[1].kind = "leftPrisonOnSixMoved"

\* The coordinate is a cell of the player's path.
OnPath(c, p) ==
    p \in DOMAIN gameZones.playerPaths /\ c \in Range(gameZones.playerPaths[p])

\* C9: between two cells of the player's path the distance is the absolute
\* difference of their path indices.
C9_PathDistanceIsIndexDifference ==
    (/\ pc = "returned"
     /\ OnPath(movement.from, movement.player)
     /\ OnPath(movement.to, movement.player))
        => actualSteps[1] =
              Abs(indexOf(gameZones.playerPaths[movement.player], movement.to)
                  - indexOf(gameZones.playerPaths[movement.player], movement.from))

C9_Witness ==
    /\ pc = "returned"
    /\ OnPath(movement.from, movement.player)
    /\ OnPath(movement.to, movement.player)
    /\ indexOf(gameZones.playerPaths[movement.player], movement.to)
          < indexOf(gameZones.playerPaths[movement.player], movement.from)
    /\ actualSteps[1] = 5

\* The origin resolves to no index of the player's path: it is off the path,
\* no waiting or starting cell, and no prison or temple cell whose trigger
\* is on the path.
OriginUnresolved ==
    /\ ~OnPath(movement.from, movement.player)
    /\ FromType \notin {"waiting", "starting"}
    /\ ~(/\ FromType \in {"prison", "temple"}
         /\ OnPath(getSourceTriggerCell(movement.from)[1].trigger, movement.player))

\* C10: when the origin resolves to no index of the player's path the
\* distance is the Manhattan value, also for an off-path origin classified
\* home, movementStart or teleport and for a prison or temple origin whose
\* trigger is off the path.
C10_UnresolvedOriginIsManhattan ==
    (pc = "returned" /\ OriginUnresolved)
        => actualSteps[1] = calculateManhattanDistance(movement.from, movement.to)

\* The path index the destination resolves to: its own index when it is on
\* the path, the index of its trigger when it is a prison or temple cell,
\* -1 when there is none.
DestinationIndex ==
    LET path == gameZones.playerPaths[movement.player]
    IN  IF movement.to \in Range(path) THEN indexOf(path, movement.to)
        ELSE IF ToType \in {"prison", "temple"}
        THEN indexOf(path, getTriggerCell(movement.to)[1].trigger)
        ELSE -1

\* C11: from a waiting cell off the path the distance to a starting cell is 1
\* and to a destination resolving to path index i it is 2 + i; from a
\* starting cell off the path the distance to a starting cell is 0 and to a
\* destination resolving to path index i it is 1 + i.
C11_VirtualOriginDistances ==
    (/\ pc = "returned"
     /\ movement.player \in DOMAIN gameZones.playerPaths
     /\ ~OnPath(movement.from, movement.player))
        => /\ (FromType = "waiting" /\ ToType = "starting") => actualSteps[1] = 1
           /\ (FromType = "waiting" /\ ToType # "starting" /\ DestinationIndex >= 0)
                 => actualSteps[1] = 2 + DestinationIndex
           /\ (FromType = "starting" /\ ToType = "starting") => actualSteps[1] = 0
           /\ (FromType = "starting" /\ ToType # "starting" /\ DestinationIndex >= 0)
                 => actualSteps[1] = 1 + DestinationIndex

C11_Witness ==
    /\ pc = "returned"
    /\ ~OnPath(movement.from, movement.player)
    /\ FromType = "waiting"
    /\ ToType = "prison"
    /\ DestinationIndex = 2
    /\ actualSteps[1] = 4

ZoneTags ==
    {"waiting", "starting", "home", "prison", "temple", "movementStart",
     "teleport", "field"}

\* The coordinate is in one of the player's own zone sets, is a prison or
\* temple target cell, or is the player's movement-start or teleport cell.
InSomeZone(c, p) ==
    \/ p \in DOMAIN gameZones.waitingZones /\ c \in Range(gameZones.waitingZones[p])
    \/ p \in DOMAIN gameZones.startingPositions
          /\ c \in Range(gameZones.startingPositions[p])
    \/ p \in DOMAIN gameZones.homeZones /\ c \in Range(gameZones.homeZones[p])
    \/ \E i \in 1..Len(gameZones.prison) : gameZones.prison[i].teleportTo = c
    \/ \E i \in 1..Len(gameZones.temple) : gameZones.temple[i].teleportTo = c
    \/ p \in DOMAIN gameZones.movementStart /\ c = gameZones.movementStart[p]
    \/ p \in DOMAIN gameZones.teleportZones /\ c = gameZones.teleportZones[p]

\* C12: getZoneType gives every coordinate and player one of the eight zone
\* tags, and gives field exactly when the coordinate is in none of the
\* player's zones and is no prison or temple target cell.
C12_ZoneTagTotalAndFieldIffNoZone ==
    pc = "returned" =>
        \A c \in {movement.from, movement.to} :
            /\ getZoneType(c, movement.player).type \in ZoneTags
            /\ getZoneType(c, movement.player).type = "field"
                  <=> ~InSomeZone(c, movement.player)

\* A cell that is another player's teleport cell and a field cell for the
\* mover, and the mover's own teleport cell.
C12_Witness ==
    /\ pc = "returned"
    /\ movement.player = 1
    /\ movement.from = gameZones.teleportZones[2]
    /\ FromType = "field"
    /\ movement.to = gameZones.teleportZones[1]
    /\ ToType = "teleport"

\* The configured trigger -> target pairs of the prison and temple tables.
TriggerPairs ==
    {gameZones.prison[i] : i \in 1..Len(gameZones.prison)}
        \cup {gameZones.temple[i] : i \in 1..Len(gameZones.temple)}

\* Both lookups of the coordinate give the trigger t.
BothLookupsGive(c, t) ==
    /\ getSourceTriggerCell(c) # <<>>
    /\ getSourceTriggerCell(c)[1].trigger = t
    /\ getTriggerCell(c) # <<>>
    /\ getTriggerCell(c)[1].trigger = t

\* C13: for the target of a configured trigger -> target pair both
\* getSourceTriggerCell and getTriggerCell give that pair's trigger; for a
\* coordinate that is no configured target both give null.
C13_TriggerLookupsInvertTargets ==
    pc = "returned" =>
        \A c \in {movement.from, movement.to} :
            /\ \A e \in TriggerPairs : e.teleportTo = c => BothLookupsGive(c, e.trigger)
            /\ (\A e \in TriggerPairs : e.teleportTo # c)
                  => getSourceTriggerCell(c) = <<>> /\ getTriggerCell(c) = <<>>

C13_Witness ==
    /\ pc = "returned"
    /\ movement.from = gameZones.temple[1].teleportTo
    /\ BothLookupsGive(movement.from, gameZones.temple[1].trigger)
    /\ movement.to = gameZones.prison[2].trigger
    /\ getTriggerCell(movement.to) = <<>>

\* What the diff of (null, S) is to report for the snapshot S.
FirstTurnDelta(d, S) ==
    /\ d.hasChanges
    /\ d.pieceMovements = <<>>
    /\ d.currentPlayer = <<IF S.currentPlayer = <<>> THEN <<1>> ELSE S.currentPlayer>>
    /\ IF S.lastDiceRoll = <<>> THEN d.diceRolls = <<>>
       ELSE /\ Len(d.diceRolls) = 1
            /\ d.diceRolls[1].dice1 = S.lastDiceRoll[1]
            /\ d.diceRolls[1].dice2 = S.lastDiceRoll[2]
            /\ d.diceRolls[1].player = <<>>
            /\ d.diceRolls[1].color = ""

\* C14: with no previous snapshot the diff has hasChanges = true, no
\* movements, the snapshot's current player (1 when it has none) and the
\* dice roll of lastDiceRoll when present, never one of the dice-roll log.
C14_FirstTurnDelta ==
    (pc = "updating" /\ previousState = <<>>)
        => /\ FirstTurnDelta(differences[1], gameState[1])
           /\ FirstTurnDelta(differencesGD[1], gameState[1])

\* A first turn whose log's entries differ from lastDiceRoll.
C14_Witness ==
    /\ pc = "updating"
    /\ previousState = <<>>
    /\ Len(gameState[1].diceLog) = 2
    /\ gameState[1].diceLog[1].dice1 = 2
    /\ gameState[1].lastDiceRoll = <<1, 4>>
    /\ differences[1].diceRolls[1].dice1 = 1

\* A first turn of a snapshot without current player and without dice roll.
C14_WitnessNoPlayer ==
    /\ pc = "updating"
    /\ previousState = <<>>
    /\ gameState[1].currentPlayer = <<>>
    /\ gameState[1].lastDiceRoll = <<>>
    /\ differences[1].currentPlayer = << <<1>> >>

\* The (player key, 1-based index) pairs the diff is to report: the key is
\* in current's piece mapping, a piece is at the index in both snapshots and
\* the two coordinates differ.
MovedPairs(prev, cur) ==
    IF prev.piecesData = <<>> \/ cur.piecesData = <<>> THEN {}
    ELSE {ki \in (DOMAIN cur.piecesData[1]) \X (1..(MaxPieces + 1)) :
            /\ ki[1] \in DOMAIN prev.piecesData[1]
            /\ ki[2] <= Len(prev.piecesData[1][ki[1]])
            /\ ki[2] <= Len(cur.piecesData[1][ki[1]])
            /\ prev.piecesData[1][ki[1]][ki[2]].position
                  # cur.piecesData[1][ki[1]][ki[2]].position}

\* The entry the diff is to hold for such a pair.
MovedEntry(prev, cur, ki) ==
    [player |-> ki[1], piece |-> ki[2] - 1,
     pieceId |-> cur.piecesData[1][ki[1]][ki[2]].id,
     from |-> prev.piecesData[1][ki[1]][ki[2]].position,
     to |-> cur.piecesData[1][ki[1]][ki[2]].position]

\* The movement list holds the entries of exactly the moved pairs, each once.
ListsMovedPairs(d, prev, cur) ==
    /\ Range(d.pieceMovements) = {MovedEntry(prev, cur, ki) : ki \in MovedPairs(prev, cur)}
    /\ Len(d.pieceMovements) = Cardinality(MovedPairs(prev, cur))

\* C15: with both snapshots present the movement list holds an entry
\* (player, index, current piece id, previous coordinate, current coordinate)
\* for exactly the pairs of a player key of current's piece mapping and an
\* index at which both snapshots have a piece with differing coordinates.
C15_MovementsAreTheMovedPairs ==
    (pc = "updating" /\ previousState # <<>>)
        => /\ ListsMovedPairs(differences[1], previousState[1], gameState[1])
           /\ ListsMovedPairs(differencesGD[1], previousState[1], gameState[1])

\* A turn that moved a piece and removed a player from the piece mapping.
C15_Witness ==
    /\ pc = "updating"
    /\ previousState # <<>>
    /\ previousState[1].piecesData # <<>>
    /\ gameState[1].piecesData # <<>>
    /\ Len(differences[1].pieceMovements) = 1
    /\ DOMAIN previousState[1].piecesData[1] \ DOMAIN gameState[1].piecesData[1] # {}

\* A turn that moved a piece while another index holds a piece in only one
\* of the snapshots.
C15_WitnessOneSided ==
    /\ pc = "updating"
    /\ previousState # <<>>
    /\ previousState[1].piecesData # <<>>
    /\ gameState[1].piecesData # <<>>
    /\ Len(differences[1].pieceMovements) = 1
    /\ \E k \in DOMAIN previousState[1].piecesData[1] \cap DOMAIN gameState[1].piecesData[1] :
          Len(previousState[1].piecesData[1][k]) # Len(gameState[1].piecesData[1][k])

\* The delta's resolved dice roll is the entry e with its player and color.
ResolvesEntry(d, e) ==
    /\ Len(d.diceRolls) = 1
    /\ d.diceRolls[1].dice1 = e.dice1
    /\ d.diceRolls[1].dice2 = e.dice2
    /\ d.diceRolls[1].player = <<e.player>>
    /\ d.diceRolls[1].color = e.color

\* C16: with a previous snapshot and a non-empty dice-roll log, kept in the
\* order of appending, both implementations of the diff resolve the last
\* entry of the log, with its player and color.
C16_ResolvesLastLogEntry ==
    (/\ pc = "updating"
     /\ previousState # <<>>
     /\ Len(gameState[1].diceLog) > 0)
        => LET log == gameState[1].diceLog
           IN  /\ ResolvesEntry(differences[1], log[Len(log)])
               /\ ResolvesEntry(differencesGD[1], log[Len(log)])

\* The same for the implementation of gameData.js alone.
C16_GameDataResolvesLastLogEntry ==
    (/\ pc = "updating"
     /\ previousState # <<>>
     /\ Len(gameState[1].diceLog) > 0)
        => ResolvesEntry(differencesGD[1], gameState[1].diceLog[Len(gameState[1].diceLog)])

\* C17: the step that runs compareGameStates, validateAllMoves and
\* generateMoveReport leaves the previous and the current snapshot as they
\* were before it.
C17_SnapshotsUnchanged ==
    [][(pc = "finding" /\ pc' = "updating")
          => (gameState' = gameState /\ previousState' = previousState)]_vars

\* The three calls have run on a turn with a previous snapshot, a movement
\* and a report of it.
C17_Witness ==
    /\ pc = "updating"
    /\ previousState # <<>>
    /\ Len(differences[1].pieceMovements) > 0
    /\ validationResult[1].isValid
    /\ Len(moveReport[1].details) > 0

\* C18: generateMoveReport returns the fixed 'no changes' message exactly
\* when the delta's hasChanges flag is false, whatever the context state and
\* the validation errors passed in.
C18_NoChangesIffFlagFalse ==
    pc = "returned" /\ moveReport # <<>>
        => (moveReport[1].kind = "noChanges" <=> ~differences[1].hasChanges)
           /\ (moveReport[1].kind = "noChanges" => moveReport[1] = noChangesReport)

\* The 'no changes' message for a delta that lists movements, called with
\* validation errors.
C18_Witness ==
    /\ pc = "returned"
    /\ ~differences[1].hasChanges
    /\ Len(differences[1].pieceMovements) = 2
    /\ Len(validationResult[1].errorMessages) = 2
    /\ gameState[1].playersOrder # <<>>
    /\ moveReport[1] = noChangesReport

\* The player the delta names as having moved: the previous player when the
\* player changed, else the current player; <<>> when it names none.
ActingPlayer ==
    IF differences[1].previousPlayer # <<>> THEN differences[1].previousPlayer[1]
    ELSE IF differences[1].currentPlayer # <<>> THEN differences[1].currentPlayer[1]
    ELSE <<>>

\* The color embedded in the resolved dice roll, "" when there is none.
DiceColor ==
    IF Len(differences[1].diceRolls) > 0 THEN differences[1].diceRolls[1].color ELSE ""

\* The entries of the context state's player-order table for the acting player.
OrderEntries ==
    {e \in Range(gameState[1].playersOrder[1]) : <<e.player>> = ActingPlayer}

\* C19: the report's color is the resolved dice roll's color when it has one;
\* else, when the context state has a player-order table, the color of the
\* acting player's entry in it and never one of the fixed table; else the
\* fixed four-color table's color for player 1 to 4.
C19_ColorByPriority ==
    (pc = "returned" /\ moveReport # <<>> /\ moveReport[1].kind = "report")
        => /\ DiceColor # "" => moveReport[1].color = DiceColor
           /\ (DiceColor = "" /\ gameState[1].playersOrder # <<>>)
                 => /\ \A e \in OrderEntries : moveReport[1].color = e.color
                    /\ moveReport[1].color \notin Range(playerColors)
           /\ (DiceColor = "" /\ gameState[1].playersOrder = <<>>
                 /\ ActingPlayer \in {<<p>> : p \in 1..4})
                 => moveReport[1].color = playerColors[ActingPlayer[1]]

\* The dice roll's color is reported although the player-order table has an
\* entry for the acting player.
C19_Witness ==
    /\ pc = "returned"
    /\ moveReport[1].kind = "report"
    /\ DiceColor = "Azure"
    /\ gameState[1].playersOrder # <<>>
    /\ OrderEntries # {}
    /\ moveReport[1].color = "Azure"

\* The table's color is reported for a delta without dice color.
C19_WitnessTable ==
    /\ pc = "returned"
    /\ moveReport[1].kind = "report"
    /\ DiceColor = ""
    /\ gameState[1].playersOrder # <<>>
    /\ OrderEntries # {}
    /\ moveReport[1].color = "Crimson"

\* The fixed table's color is reported when there is neither.
C19_WitnessFixed ==
    /\ pc = "returned"
    /\ moveReport[1].kind = "report"
    /\ DiceColor = ""
    /\ gameState[1].playersOrder = <<>>
    /\ ActingPlayer = <<3>>
    /\ moveReport[1].color = "Green"

\* The report holds one description per movement of the turn, in order, each
\* of its movement's piece, a capture described as a capture.
DescribesEveryMovement ==
    /\ Len(moveReport[1].details) = Len(differences[1].pieceMovements)
    /\ \A i \in 1..Len(differences[1].pieceMovements) :
          /\ moveReport[1].details[i].piece = PieceLabel(differences[1].pieceMovements[i])
          /\ moveReport[1].details[i].kind = "captured"
                <=> isPieceCaptured(differences[1].pieceMovements[i])

\* C20: when the turn's validation has errors the report holds the list of
\* the errors and no movement description, a capture's included; when it has
\* none the report holds every movement's description and no error.
C20_ErrorsReplaceDescriptions ==
    (pc = "updating" /\ differences[1].hasChanges)
        => IF Len(validationResult[1].errorMessages) > 0
           THEN /\ moveReport[1].errors = validationResult[1].errorMessages
                /\ moveReport[1].details = <<>>
           ELSE /\ moveReport[1].errors = <<>>
                /\ DescribesEveryMovement

\* A turn with a capture and an invalid movement: errors and no description.
C20_Witness ==
    /\ pc = "updating"
    /\ Len(differences[1].pieceMovements) = 2
    /\ \E i \in 1..2 : isPieceCaptured(differences[1].pieceMovements[i])
    /\ Len(validationResult[1].errorMessages) > 0
    /\ moveReport[1].details = <<>>

\* A valid turn with a capture and another movement: two descriptions.
C20_WitnessValid ==
    /\ pc = "updating"
    /\ Len(differences[1].pieceMovements) = 2
    /\ \E i \in 1..2 : isPieceCaptured(differences[1].pieceMovements[i])
    /\ validationResult[1].isValid
    /\ Len(moveReport[1].details) = 2

\* The cells of the mover's home run after the landing cell.
LaterHomeCells ==
    LET coordinates == gameZones.homeZones[movement.player]
    IN  {coordinates[i] : i \in (indexOf(coordinates, movement.to) + 2)..Len(coordinates)}

\* C21: a movement into a home cell, from an origin the narrator does not
\* describe by itself, is reported as 'settled in home' when every later cell
\* of the home run holds a piece in the current snapshot, the last home cell
\* included, and as 'hidden in home' when a later home cell is free.
C21_HomeSettledOrHidden ==
    (/\ pc = "returned"
     /\ description # <<>>
     /\ ToType = "home"
     /\ FromType \notin {"starting", "prison", "temple"})
        => description[1].kind =
              IF LaterHomeCells \subseteq AllPositions(gameState[1])
              THEN "settledInHome" ELSE "hiddenInHome"

\* The same without the case of the last home cell.
C21_HomeSettledOrHiddenBeforeLast ==
    (/\ pc = "returned"
     /\ description # <<>>
     /\ ToType = "home"
     /\ LaterHomeCells # {}
     /\ FromType \notin {"starting", "prison", "temple"})
        => description[1].kind =
              IF LaterHomeCells \subseteq AllPositions(gameState[1])
              THEN "settledInHome" ELSE "hiddenInHome"

\* C22: the store step of updateGameState ends in one of two ways, whatever
\* the validation found: the store fails and its error is returned, or the
\* new snapshot becomes the stored state and the result has success = true
\* and carries the validation outcome and the report.
C22_InvalidTurnIsStored ==
    [][(pc = "updating" /\ pc' = "idle")
          => \/ /\ result'[1].success
                /\ db' = Record(gameState)
                /\ result'[1].validationResult = validationResult
                /\ result'[1].moveReport = moveReport
             \/ /\ ~result'[1].success
                /\ result'[1].error = "updateError"
                /\ db' = db]_vars

\* A turn with validation errors was stored and returned success.
C22_Witness ==
    /\ pc = "idle"
    /\ result # <<>>
    /\ result[1].success
    /\ ~result[1].validationResult[1].isValid
    /\ Len(result[1].moveReport[1].errors) > 0
    /\ db = Record(gameState)

(***************************************************************************)
(* Claims C23 to C30                                                       *)
(***************************************************************************)
\* The error codes the malformed arguments of a request stand for.
FaultCodes(req) ==
    (IF req.chprId \in {"empty", "nonString"} THEN {"INVALID_CHPR_ID"} ELSE {})
    \cup (IF req.gameState \in {"missing", "nonObject"}
          THEN {"INVALID_GAME_STATE"} ELSE {})
    \cup (IF req.gameState = "nonSerializable" THEN {"INVALID_JSON"} ELSE {})

\* C23: a call of updateGameState with an empty or non-string identifier, or
\* with a missing, non-object or non-serializable snapshot, returns
\* success = false with the code of a malformed argument (INVALID_CHPR_ID,
\* INVALID_GAME_STATE, INVALID_JSON), and nothing was fetched, diffed,
\* validated, narrated or stored.
C23_MalformedInputRejected ==
    [][FaultCodes(request') # {}
          => /\ pc' = "idle"
             /\ ~result'[1].success
             /\ result'[1].error \in FaultCodes(request')
             /\ resultGD'[1] = FailureGD(result'[1].error)
             /\ previousState' = <<>>
             /\ differences' = <<>>
             /\ validationResult' = <<>>
             /\ moveReport' = <<>>
             /\ db' = db]_vars

C23_Witness ==
    /\ pc = "idle"
    /\ request = Request("string", "nonSerializable")
    /\ result = <<Failure("INVALID_JSON")>>
    /\ db = Record(<<SeedA>>)

C23_WitnessIdentifier ==
    /\ pc = "idle"
    /\ request = Request("empty", "missing")
    /\ result = <<Failure("INVALID_CHPR_ID")>>

\* The snapshot the record holds: <<>> without a record or with a null one.
StoredSnapshot == IF db = <<>> THEN <<>> ELSE db[1].new_game_state

\* C24: every failure of a persistence call is reported as success = false;
\* a failed fetch of the previous state is never taken for 'no previous
\* state': a turn that was diffed and is about to be stored was diffed
\* against the snapshot the record holds.
C24_FailedFetchIsReported ==
    pc = "updating" => previousState = StoredSnapshot

\* The steps fetch, diff, validate, narrate, store of a successful call of
\* updateGameState (gameStateManager.js), each on the result of the one before.
RanStepsInOrder ==
    /\ differences = <<compareGameStates(previousState, gameState[1])>>
    /\ validationResult = <<validateAllMoves(differences[1].pieceMovements,
                                             differences[1].diceRolls)>>
    /\ moveReport = <<generateMoveReport(differences[1], gameState[1],
                                         validationResult[1].errorMessages)>>
    /\ db = Record(gameState)

\* C25: every successful update made through the request boundary, that is
\* by the updateGameState that server.js imports (gameData.js), has run
\* fetch, diff, validate, narrate, store in this order and returns the
\* narrative text and the validation outcome.
C25_ImportedUpdateReturnsValidation ==
    (pc = "idle" /\ resultGD # <<>> /\ resultGD[1].success)
        => /\ RanStepsInOrder
           /\ resultGD[1].moveReport = moveReportGD
           /\ "validationResult" \in DOMAIN resultGD[1]
           /\ resultGD[1].validationResult = validationResult

\* The updateGameState of gameStateManager.js does so.
C25_ManagerUpdateReturnsValidation ==
    (pc = "idle" /\ result # <<>> /\ result[1].success)
        => /\ RanStepsInOrder
           /\ result[1].moveReport = moveReport
           /\ "validationResult" \in DOMAIN result[1]
           /\ result[1].validationResult = validationResult

\* The messages of one movement: none for a capture, else the message of each
\* violated rule, in the order distance, waiting exit, prison exit, teleport.
RuleMessages(m, rolls) ==
    IF isPieceCaptured(m) THEN <<>>
    ELSE validateMoveDistance(m, rolls).errorMessage
            \o validateWaitingZoneExit(m, rolls).errorMessage
            \o validatePrisonExit(m, rolls).errorMessage
            \o validateTeleportUsage(m, rolls).errorMessage

\* C26: validateMove returns one message per violated rule, in the order
\* distance, waiting exit, prison exit, teleport, without stopping at the
\* first; validateAllMoves returns these lists concatenated in movement
\* order, and isValid is true exactly when the concatenation is empty.
C26_AllRuleMessagesInOrder ==
    validationResult # <<>>
        => LET moves == differences[1].pieceMovements
               rolls == differences[1].diceRolls
           IN  /\ validationResult[1].errorMessages
                    = Flatten([i \in 1..Len(moves) |-> RuleMessages(moves[i], rolls)])
               /\ validationResult[1].isValid
                    <=> validationResult[1].errorMessages = <<>>

\* A turn of two movements, the first with two violated rules.
C26_Witness ==
    /\ validationResult # <<>>
    /\ Len(differences[1].pieceMovements) = 2
    /\ Len(RuleMessages(differences[1].pieceMovements[1], differences[1].diceRolls)) = 2
    /\ Len(RuleMessages(differences[1].pieceMovements[2], differences[1].diceRolls)) > 0
    /\ ~validationResult[1].isValid

\* A valid turn with a movement.
C26_WitnessValid ==
    /\ validationResult # <<>>
    /\ Len(differences[1].pieceMovements) > 0
    /\ validationResult[1].isValid

\* C27: when calls of updateGameState for the same record interleave, the
\* delta, validation and report of every stored snapshot were computed
\* against the snapshot stored immediately before it: a call that fetched a
\* previous snapshot and stores successfully replaces that very snapshot.
C27_StoredAgainstImmediatePredecessor ==
    [][(pc = "updating" /\ pc' = "idle" /\ result'[1].success
            /\ previousState # <<>>)
          => previousState = StoredSnapshot]_vars

\* The same without a second call: a fetched snapshot is the one replaced.
C27_SequentialCallsAgree ==
    (pc = "updating" /\ previousState # <<>>) => previousState = StoredSnapshot

\* A delta was computed from a present previous snapshot.
DiffedAgainstPrevious == differences # <<>> /\ previousState # <<>>

\* C28: for a delta computed from a present previous snapshot, hasChanges is
\* true exactly when the player changed, or there is a movement, or the phase
\* changed, or the current snapshot's dice log is non-empty; playerChanged is
\* true exactly when previousPlayer was set, and statusChanged exactly when
\* the two phases differ.
C28_FlagsOfTheDelta ==
    DiffedAgainstPrevious
        => LET d == differences[1]
           IN  /\ d.hasChanges <=> \/ d.playerChanged
                                   \/ d.pieceMovements # <<>>
                                   \/ d.statusChanged
                                   \/ Len(gameState[1].diceLog) > 0
               /\ d.playerChanged <=> d.previousPlayer # <<>>
               /\ d.playerChanged
                    <=> previousState[1].currentPlayer # gameState[1].currentPlayer
               /\ d.statusChanged
                    <=> previousState[1].gamePhase # gameState[1].gamePhase

\* Only the phase changed.
C28_Witness ==
    /\ DiffedAgainstPrevious
    /\ differences[1].hasChanges
    /\ differences[1].statusChanged
    /\ ~differences[1].playerChanged
    /\ differences[1].pieceMovements = <<>>
    /\ gameState[1].diceLog = <<>>

\* Nothing changed.
C28_WitnessNoChanges ==
    /\ DiffedAgainstPrevious
    /\ ~differences[1].hasChanges
    /\ differences[1].previousPlayer = <<>>

\* The player changed and nothing else.
C28_WitnessPlayer ==
    /\ DiffedAgainstPrevious
    /\ differences[1].playerChanged
    /\ differences[1].previousPlayer # <<>>
    /\ ~differences[1].statusChanged
    /\ differences[1].pieceMovements = <<>>
    /\ gameState[1].diceLog = <<>>

\* The movement starts on the teleport cell of another player.
MisusesTeleport ==
    \E q \in DOMAIN gameZones.teleportZones :
        q # movement.player /\ movement.from = gameZones.teleportZones[q]

\* C29: without a dice roll the distance rule passes, every waiting-zone exit
\* and every prison exit is reported 'without dice information', and so a
\* non-capture movement is valid exactly when it starts neither in a waiting
\* nor in a prison cell and misuses no teleport.
C29_DicelessValidIffNoExit ==
    (Validated /\ ~HasDice /\ ~Capture)
        => /\ ~Reported("distance")
           /\ isWaitingZoneExit(movement.from, movement.to, movement.player)
                 => Reported("waitingNoDice")
           /\ FromType = "prison" => Reported("prisonNoDice")
           /\ validation[1].isValid
                 <=> (FromType \notin {"waiting", "prison"} /\ ~MisusesTeleport)

\* The part about the single rules.
C29_DicelessRules ==
    (Validated /\ ~HasDice /\ ~Capture)
        => /\ ~Reported("distance")
           /\ isWaitingZoneExit(movement.from, movement.to, movement.player)
                 <=> Reported("waitingNoDice")
           /\ FromType = "prison" <=> Reported("prisonNoDice")
           /\ validation[1].isValid
                 <=> ~(\/ isWaitingZoneExit(movement.from, movement.to, movement.player)
                       \/ FromType = "prison")

\* A dice-less movement from a foreign teleport cell that is found valid.
C29_TeleportMisuseValid ==
    Validated /\ ~HasDice /\ ~Capture /\ MisusesTeleport /\ validation[1].isValid

\* A dice-less movement inside the waiting zone that is found valid.
C29_WaitingToWaitingValid ==
    Validated /\ ~HasDice /\ FromType = "waiting" /\ ToType = "waiting"
        /\ validation[1].isValid

\* C30: the stored snapshot changes only in the step in which a call of
\* updateGameState stores and returns success = true; every call that returns
\* success = false (rejected input, RECORD_NOT_FOUND, a lookup error, a
\* failed update) leaves the record as it was.
C30_StoreOnlyOnSuccess ==
    [][/\ db' # db
          => /\ pc = "updating" /\ pc' = "idle"
             /\ result'[1].success
             /\ db' = Record(gameState)
       /\ (pc' = "idle" /\ result' # <<>> /\ ~result'[1].success) => db' = db]_vars

\* A call for a missing record has returned RECORD_NOT_FOUND and there is
\* still no record.
C30_Witness ==
    /\ pc = "idle"
    /\ request = Request("string", "object")
    /\ result = <<Failure("RECORD_NOT_FOUND")>>
    /\ db = <<>>

\* A rejected call on a record whose snapshot is not the client's.
C30_WitnessRejected ==
    /\ pc = "idle"
    /\ result # <<>>
    /\ result[1].error = "INVALID_GAME_STATE"
    /\ db # <<>>
    /\ db # Record(<<clientState>>)

\* A successful call has replaced the record's snapshot by another one.
C30_WitnessStored ==
    /\ pc = "idle"
    /\ result # <<>>
    /\ result[1].success
    /\ previousState # gameState
    /\ db = Record(gameState)

====
